---- MODULE Spec2Model ----
(***************************************************************************)
(* Verification model of the cyber-plinko core: the ObjectPool of          *)
(* src/systems/object-pool.js and the fixed-timestep PhysicsEngine with    *)
(* its CollisionDetector and PhysicsEntity (src/physics/*.js), and the     *)
(* GameLoop of src/core/game-loop.js with GameState and the drop handlers. *)
(*                                                                         *)
(* Real numbers of the program (positions, velocities, ...) are held as    *)
(* integers in units of 1/SCALE; products and quotients truncate toward    *)
(* zero.  Simulation time is held in ticks, FixedTimeStep ticks making     *)
(* one physics sub-step.                                                   *)
(***************************************************************************)
EXTENDS Integers, Sequences, FiniteSets, TLC

\* ------------------------------------------------------------------------
\* Bounds of the model
\* ------------------------------------------------------------------------
MaxObjects == 5
MaxPoolOps == 5
MaxInitialSize == 2
MaxPoolSize == 2
MaxFrames == 3
MaxPhysicsFrames == 1
MaxApiCalls == 1
MaxDt == 25
MaxGridOps == 3
MaxGridObjects == 2
MaxPairOps == 1
MaxAvailableLen == 3
\* frames of the game loop and input events handled in one run of the game
MaxGameFrames == 2
MaxGameOps == 3
\* the cap CONFIG.GAME.MAX_BALLS_ON_SCREEN in force and the balls the player
\* starts with, CONFIG.GAME.INITIAL_BALL_COUNT, on the scale of the model
MaxBallsOnScreen == 2
InitialBallCount == 3

MaxClock == 8

MaxTimerOps == 4

MaxOptimizedSize == 11

MaxOptimizeOps == 4

MaxStackDepth == 6

MaxSlotCalls == 2

\* ------------------------------------------------------------------------
\* Generic helpers
\* ------------------------------------------------------------------------
Range(s) == {s[i] : i \in DOMAIN s}

Min(a, b) == IF a < b THEN a ELSE b

Max(a, b) == IF a > b THEN a ELSE b

\* Array.prototype.indexOf: first index holding v, 0 when absent
IndexOf(s, v) ==
    IF v \in Range(s) THEN CHOOSE i \in DOMAIN s : s[i] = v /\ \A j \in 1..(i - 1) : s[j] # v
    ELSE 0

\* Array.prototype.splice(index, 1) on a 1-based sequence
RemoveAt(s, i) == SubSeq(s, 1, i - 1) \o SubSeq(s, i + 1, Len(s))

NoDuplicates(s) == \A i, j \in DOMAIN s : s[i] = s[j] => i = j

\* ------------------------------------------------------------------------
\* ObjectPool
\* ------------------------------------------------------------------------
\* Pooled objects are identified by the order of their construction; Null
\* stands for null/undefined and ForeignObj for an object this pool never
\* constructed.
Null == 0
ForeignObj == MaxObjects + 1

VARIABLES pool, poolOps, last

poolVars == <<pool, poolOps, last>>

NewStats == [created |-> 0, acquired |-> 0, released |-> 0, poolHits |-> 0,
             poolMisses |-> 0, maxInUse |-> 0, releaseErrors |-> 0]

\* preallocate(count): count fresh objects pushed to available
RECURSIVE Preallocate(_, _)
Preallocate(p, count) ==
    IF count <= 0 THEN p
    ELSE Preallocate([p EXCEPT !.available = Append(@, p.stats.created + 1),
                               !.stats.created = @ + 1], count - 1)

\* constructor(createFn, resetFn, initialSize, maxSize)
NewPool(initialSize, maxSize) ==
    Preallocate([available |-> <<>>, inUse |-> {}, maxSize |-> maxSize,
                 stats |-> NewStats], initialSize)

\* acquire(...args): the pool after the call and the object returned
AcquireEager(p) ==
    LET s0 == [p.stats EXCEPT !.acquired = @ + 1]
        obj == s0.created + 1
        q == [p EXCEPT !.stats = [s0 EXCEPT !.created = @ + 1, !.poolMisses = @ + 1],
                       !.inUse = @ \cup {obj}]
    IN [pool |-> [q EXCEPT !.stats.maxInUse = Max(@, Cardinality(q.inUse))],
        result |-> obj]

AcquireRefusing(p) ==
    LET s0 == [p.stats EXCEPT !.acquired = @ + 1]
    IN IF Len(p.available) > 0
       THEN LET obj == p.available[Len(p.available)]
                q == [p EXCEPT !.available = SubSeq(@, 1, Len(@) - 1),
                               !.stats = [s0 EXCEPT !.poolHits = @ + 1],
                               !.inUse = @ \cup {obj}]
            IN [pool |-> [q EXCEPT !.stats.maxInUse = Max(@, Cardinality(q.inUse))],
                result |-> obj]
       ELSE IF Cardinality(p.inUse) >= p.maxSize
            THEN [pool |-> [p EXCEPT !.stats = s0], result |-> Null]
            ELSE AcquireEager(p)

Acquire(p) ==
    LET s0 == [p.stats EXCEPT !.acquired = @ + 1]
        fresh == s0.created + 1
        popped == IF Len(p.available) > 0 THEN p.available[Len(p.available)] ELSE Null
        rest == IF Len(p.available) > 0 THEN SubSeq(p.available, 1, Len(p.available) - 1)
                ELSE p.available
        hit == Len(p.available) > 0 /\ popped \notin p.inUse
        obj == IF hit THEN popped ELSE fresh
        s1 == IF hit THEN [s0 EXCEPT !.poolHits = @ + 1]
              ELSE [s0 EXCEPT !.created = @ + 1, !.poolMisses = @ + 1]
        q == [p EXCEPT !.available = rest, !.stats = s1, !.inUse = @ \cup {obj}]
    IN [pool |-> [q EXCEPT !.stats.maxInUse = Max(@, Cardinality(q.inUse))],
        result |-> obj]

\* what a caller can pass to release/forceRelease: an object this pool has
\* constructed so far, null, or an object of some other origin
ClientObjects(p) == (1..p.stats.created) \cup {Null, ForeignObj}

\* release(obj): the pool after the call and the boolean returned
ReleaseKeepingLease(p, obj) ==
    IF obj = Null \/ obj \notin p.inUse
    THEN [pool |-> [p EXCEPT !.stats.releaseErrors = @ + 1], result |-> FALSE]
    ELSE IF Len(p.available) < p.maxSize
         THEN [pool |-> [p EXCEPT !.available = Append(@, obj), !.stats.released = @ + 1],
               result |-> TRUE]
         ELSE [pool |-> [p EXCEPT !.inUse = @ \ {obj}], result |-> FALSE]

ReleaseUnchecked(p, obj) ==
    IF obj = Null
    THEN [pool |-> [p EXCEPT !.stats.releaseErrors = @ + 1], result |-> FALSE]
    ELSE IF Len(p.available) < p.maxSize
         THEN [pool |-> [p EXCEPT !.inUse = @ \ {obj}, !.available = Append(@, obj),
                                  !.stats.released = @ + 1],
               result |-> TRUE]
         ELSE [pool |-> [p EXCEPT !.inUse = @ \ {obj}], result |-> FALSE]

ReleaseOverCapacity(p, obj) ==
    IF obj = Null \/ obj \notin p.inUse
    THEN [pool |-> [p EXCEPT !.stats.releaseErrors = @ + 1], result |-> FALSE]
    ELSE IF Len(p.available) <= p.maxSize
         THEN [pool |-> [p EXCEPT !.inUse = @ \ {obj}, !.available = Append(@, obj),
                                  !.stats.released = @ + 1],
               result |-> TRUE]
         ELSE [pool |-> [p EXCEPT !.inUse = @ \ {obj}], result |-> FALSE]

Release(p, obj) ==
    IF obj = Null
    THEN [pool |-> [p EXCEPT !.stats.releaseErrors = @ + 1], result |-> FALSE]
    ELSE IF obj \notin p.inUse
    THEN [pool |-> [p EXCEPT !.stats.releaseErrors = @ + 1], result |-> FALSE]
    ELSE LET q == [p EXCEPT !.inUse = @ \ {obj}]
         IN IF Len(q.available) < q.maxSize
            THEN IF obj \in Range(q.available)
                 THEN [pool |-> [q EXCEPT !.stats.releaseErrors = @ + 1], result |-> FALSE]
                 ELSE [pool |-> [q EXCEPT !.available = Append(@, obj),
                                          !.stats.released = @ + 1],
                       result |-> TRUE]
            ELSE [pool |-> q, result |-> FALSE]

\* forceRelease(obj)
ForceRelease(p, obj) ==
    IF obj = Null THEN [pool |-> p, result |-> FALSE]
    ELSE LET idx == IndexOf(p.available, obj)
             av == IF idx # 0 THEN RemoveAt(p.available, idx) ELSE p.available
             q == [p EXCEPT !.inUse = @ \ {obj}, !.available = av]
         IN IF Len(av) < q.maxSize
            THEN [pool |-> [q EXCEPT !.available = Append(@, obj), !.stats.released = @ + 1],
                  result |-> TRUE]
            ELSE [pool |-> q, result |-> FALSE]

\* clear(): both collections emptied, the cumulative statistics kept
Clear(p) == [p EXCEPT !.available = <<>>, !.inUse = {}]

\* resize(newSize)
Resize(p, newSize) ==
    LET q == IF newSize < Len(p.available)
             THEN [p EXCEPT !.available = SubSeq(@, 1, newSize)]
             ELSE IF newSize > Len(p.available)
                  THEN Preallocate(p, newSize - Len(p.available))
                  ELSE p
    IN [q EXCEPT !.maxSize = newSize]

NoCall == [op |-> "none", obj |-> Null, result |-> Null, pre |-> NewPool(0, 0)]

InitPool ==
    /\ \E initialSize \in 0..MaxInitialSize, maxSize \in 1..MaxPoolSize :
          pool = NewPool(initialSize, maxSize)
    /\ poolOps = 0
    /\ last = NoCall

DoAcquire ==
    /\ poolOps < MaxPoolOps
    /\ pool.stats.created < MaxObjects
    /\ LET r == Acquire(pool)
       IN /\ pool' = r.pool
          /\ last' = [op |-> "acquire", obj |-> Null, result |-> r.result, pre |-> pool]
    /\ poolOps' = poolOps + 1

DoRelease ==
    /\ poolOps < MaxPoolOps
    /\ \E obj \in ClientObjects(pool) :
          LET r == Release(pool, obj)
          IN /\ pool' = r.pool
             /\ last' = [op |-> "release", obj |-> obj, result |-> r.result, pre |-> pool]
    /\ poolOps' = poolOps + 1

DoForceRelease ==
    /\ poolOps < MaxPoolOps
    /\ \E obj \in ClientObjects(pool) :
          LET r == ForceRelease(pool, obj)
          IN /\ pool' = r.pool
             /\ last' = [op |-> "forceRelease", obj |-> obj, result |-> r.result, pre |-> pool]
    /\ poolOps' = poolOps + 1

DoResize ==
    /\ poolOps < MaxPoolOps
    /\ \E newSize \in 0..(MaxPoolSize + 1) :
          /\ pool.stats.created + Max(0, newSize - Len(pool.available)) <= MaxObjects
          /\ pool' = Resize(pool, newSize)
          /\ last' = [op |-> "resize", obj |-> Null, result |-> newSize, pre |-> pool]
    /\ poolOps' = poolOps + 1

DoClear ==
    /\ poolOps < MaxPoolOps
    /\ pool' = Clear(pool)
    /\ last' = [op |-> "clear", obj |-> Null, result |-> Null, pre |-> pool]
    /\ poolOps' = poolOps + 1

NextPool == DoAcquire \/ DoRelease \/ DoForceRelease \/ DoResize \/ DoClear

\* [...new Set(list)]: the list without later repetitions
RECURSIVE UniqueOf(_)
UniqueOf(s) ==
    IF s = <<>> THEN <<>>
    ELSE LET r == UniqueOf(SubSeq(s, 1, Len(s) - 1))
         IN IF s[Len(s)] \in Range(r) THEN r ELSE Append(r, s[Len(s)])

\* repairPool()
RepairPoolDedupOnly(p) == [p EXCEPT !.available = UniqueOf(@)]

RepairPool(p) ==
    [p EXCEPT !.available = SelectSeq(UniqueOf(@), LAMBDA obj : obj \notin p.inUse)]

\* validateIntegrity(): the pool after the call and the value returned
ValidateIntegrity(p) ==
    LET duplicates == Cardinality(Range(p.available)) # Len(p.available)
        shared == \E k \in 1..Len(p.available) : p.available[k] \in p.inUse
        issues == duplicates \/ shared
    IN [pool |-> IF issues THEN RepairPool(p) ELSE p, result |-> ~issues]

\* PoolManager.emergencyCleanup keeps at least this many objects available
EmergencyMinSize == 5

\* the body of the loop of PoolManager.emergencyCleanup for one pool: the
\* pool after it and what it adds to cleaned
EmergencyCleanupOf(p) ==
    LET inUseCount == Cardinality(p.inUse)
        originalSize == Len(p.available)
        targetSize == Max(EmergencyMinSize, inUseCount \div 2)
        q == Resize(ValidateIntegrity(p).pool, targetSize)
    IN [pool |-> q, result |-> originalSize - Len(q.available)]

DoValidateIntegrity ==
    /\ poolOps < MaxPoolOps
    /\ LET r == ValidateIntegrity(pool)
       IN /\ pool' = r.pool
          /\ last' = [op |-> "validateIntegrity", obj |-> Null, result |-> r.result,
                      pre |-> pool]
    /\ poolOps' = poolOps + 1

\* emergencyCleanup() of a PoolManager that manages this pool
DoEmergencyCleanup ==
    /\ poolOps < MaxPoolOps
    /\ pool.stats.created + Max(0, EmergencyMinSize - Len(pool.available)) <= MaxObjects
    /\ LET r == EmergencyCleanupOf(pool)
       IN /\ pool' = r.pool
          /\ last' = [op |-> "emergencyCleanup", obj |-> Null, result |-> r.result,
                      pre |-> pool]
    /\ poolOps' = poolOps + 1

NextManager ==
    \/ NextPool
    \/ DoValidateIntegrity
    \/ DoEmergencyCleanup

\* the lists validateIntegrity may find in available: objects 1..MaxAvailableLen
\* in any order, repeated or not
AvailableLists ==
    UNION {[1..n -> 1..MaxAvailableLen] : n \in 0..MaxAvailableLen}

\* a pool whose available and inUse hold anything, damaged or not
InitIntegrity ==
    /\ \E av \in AvailableLists, iu \in SUBSET (1..MaxAvailableLen) :
          pool = [NewPool(0, MaxAvailableLen) EXCEPT
                     !.available = av, !.inUse = iu, !.stats.created = MaxAvailableLen]
    /\ poolOps = 0
    /\ last = NoCall

NextIntegrity == DoValidateIntegrity


\* ------------------------------------------------------------------------
\* Numbers: reals as integers in units of 1/SCALE
\* ------------------------------------------------------------------------
SCALE == 100

\* quotient truncated toward zero
Trunc(n, d) == IF n >= 0 THEN n \div d ELSE -((-n) \div d)

Mul(a, b) == Trunc(a * b, SCALE)

Div(a, b) == Trunc(a * SCALE, b)

Abs(a) == IF a < 0 THEN -a ELSE a

RECURSIVE ISqrtBetween(_, _, _)
ISqrtBetween(n, lo, hi) ==
    IF lo >= hi THEN lo
    ELSE LET mid == (lo + hi + 1) \div 2
         IN IF mid * mid <= n THEN ISqrtBetween(n, mid, hi)
            ELSE ISqrtBetween(n, lo, mid - 1)

\* Math.sqrt on an integer: the largest r with r * r <= n
ISqrt(n) == ISqrtBetween(n, 0, Min(n, 46340))

\* Utils.Math.clamp
Clamp(value, lo, hi) == Min(Max(value, lo), hi)

\* ------------------------------------------------------------------------
\* Configuration (CONFIG) and engine constants
\* ------------------------------------------------------------------------
GRAVITY == 25
FRICTION == 99
BOUNCE == 65
MAX_VELOCITY == 1500
BALL_BALL_BOUNCE == 80
COLLISION_DAMPING == 95
BALL_RADIUS == 600
PEG_RADIUS == 400
RANDOM_VELOCITY_RANGE == 150
COLLISION_GRID_SIZE == 5000

\* accumulator time is counted in ticks of 1/240: fixedTimeStep = 1/120
FixedTimeStep == 2
MaxSubSteps == 5
\* the deltaTime handed to fixedUpdate is 1/StepRate
StepRate == 120

\* world handed to the PhysicsEngine constructor
WorldWidth == 10000
WorldHeight == 10000

\* ------------------------------------------------------------------------
\* PhysicsEntity, StaticPhysicsEntity, Ball, Peg
\* ------------------------------------------------------------------------
\* constructor of PhysicsEntity (options: isStatic, gravity, friction)
NewPhysicsEntity(x, y, isStatic, gravity, friction) ==
    [cls |-> "PhysicsEntity", type |-> "none",
     x |-> x, y |-> y, prevX |-> x, prevY |-> y,
     vx |-> 0, vy |-> 0, ax |-> 0, ay |-> 0,
     mass |-> 1, radius |-> 5 * SCALE, friction |-> friction, bounce |-> BOUNCE,
     gravity |-> gravity,
     isActive |-> TRUE, isStatic |-> isStatic, canCollide |-> TRUE,
     collisionGroup |-> "default", collisionMask |-> {"default"},
     collisionCount |-> 0, isCharged |-> FALSE, hitCount |-> 0, energyLevel |-> 0]

\* constructor of StaticPhysicsEntity
NewStaticPhysicsEntity(x, y) ==
    [NewPhysicsEntity(x, y, TRUE, 0, FRICTION) EXCEPT !.cls = "StaticPhysicsEntity"]

\* constructor of Ball, then the velocity the drop gives it
NewBall(x, y, vx, vy, mass, gravity, friction) ==
    [NewPhysicsEntity(x, y, FALSE, gravity, friction) EXCEPT
        !.type = "ball", !.radius = BALL_RADIUS, !.mass = mass,
        !.vx = vx, !.vy = vy,
        !.collisionGroup = "ball", !.collisionMask = {"ball", "peg", "slot"}]

\* constructor of Peg
NewPeg(x, y, energyLevel) ==
    [NewStaticPhysicsEntity(x, y) EXCEPT
        !.type = "peg", !.radius = PEG_RADIUS, !.energyLevel = energyLevel,
        !.collisionGroup = "peg", !.collisionMask = {"ball"}]

\* applyForce(fx, fy): overridden to nothing by StaticPhysicsEntity
ApplyForce(e, fx, fy) ==
    IF e.cls = "StaticPhysicsEntity" THEN e
    ELSE [e EXCEPT !.ax = @ + Trunc(fx, e.mass), !.ay = @ + Trunc(fy, e.mass)]

\* applyImpulse(ix, iy): overridden to nothing by StaticPhysicsEntity
ApplyImpulse(e, ix, iy) ==
    IF e.cls = "StaticPhysicsEntity" THEN e
    ELSE [e EXCEPT !.vx = @ + Trunc(ix, e.mass), !.vy = @ + Trunc(iy, e.mass)]

\* destroy()
Destroy(e) == [e EXCEPT !.isActive = FALSE]

\* centre distance Math.sqrt(dx * dx + dy * dy)
Distance(a, b) == ISqrt((b.x - a.x) * (b.x - a.x) + (b.y - a.y) * (b.y - a.y))

\* Math.random() takes one of these values (in 1/SCALE)
RandomValues == {25, 50}

\* Math.cos and Math.sin of the angle Math.random() * 2 * PI
CosTurn(u) == CASE u = 0 -> SCALE [] u = 25 -> 0 [] u = 50 -> -SCALE [] OTHER -> 0

SinTurn(u) == CASE u = 0 -> 0 [] u = 25 -> SCALE [] u = 50 -> 0 [] OTHER -> -SCALE

\* PhysicsEntity.isCollidingWith(other)
IsCollidingWith(this, other, same) ==
    /\ this.canCollide /\ other.canCollide
    /\ this.isActive /\ other.isActive
    /\ ~same
    /\ other.collisionGroup \in this.collisionMask
    /\ LET dx == other.x - this.x
           dy == other.y - this.y
           radiusSum == this.radius + other.radius
       IN dx * dx + dy * dy < radiusSum * radiusSum

\* PhysicsEntity.resolveCollision(other): the pair <<this, other>> after the
\* call; u is the value Math.random() returns
EntityResolveCollision(this, other, same, u) ==
    IF ~IsCollidingWith(this, other, same) THEN <<this, other>>
    ELSE LET dx == other.x - this.x
             dy == other.y - this.y
             distance == ISqrt(dx * dx + dy * dy)
         IN IF distance = 0
            THEN LET separation == Trunc(this.radius + other.radius, 2)
                     sx == Mul(CosTurn(u), separation)
                     sy == Mul(SinTurn(u), separation)
                 IN <<[this EXCEPT !.x = @ - sx, !.y = @ - sy],
                      IF ~other.isStatic THEN [other EXCEPT !.x = @ + sx, !.y = @ + sy]
                      ELSE other>>
            ELSE LET overlap == (this.radius + other.radius) - distance
                     nx == Div(dx, distance)
                     ny == Div(dy, distance)
                     separation == Trunc(overlap, 2)
                     t1 == IF ~this.isStatic
                           THEN [this EXCEPT !.x = @ - Mul(nx, separation),
                                             !.y = @ - Mul(ny, separation)]
                           ELSE this
                     o1 == IF ~other.isStatic
                           THEN [other EXCEPT !.x = @ + Mul(nx, separation),
                                              !.y = @ + Mul(ny, separation)]
                           ELSE other
                     dotProduct == Trunc(t1.vx * nx + t1.vy * ny, SCALE)
                     t2 == IF other.isStatic /\ ~this.isStatic
                           THEN [t1 EXCEPT
                                   !.vx = Mul(@ - Mul(Mul(2 * dotProduct, nx), t1.bounce),
                                              COLLISION_DAMPING),
                                   !.vy = Mul(@ - Mul(Mul(2 * dotProduct, ny), t1.bounce),
                                              COLLISION_DAMPING)]
                           ELSE t1
                 IN IF overlap <= 0 THEN <<this, other>> ELSE <<t2, o1>>

\* PhysicsEntity.resolveElasticCollision(other, nx, ny) of the entity that
\* exchanges velocities between two dynamic bodies: <<this, other>> after
\* the call
ResolveElasticCollision(this, other, nx, ny) ==
    LET dvn == Trunc((this.vx - other.vx) * nx + (this.vy - other.vy) * ny, SCALE)
        totalMass == this.mass + other.mass
        restitution == Min(this.bounce, other.bounce)
        impulseWithRestitution == Trunc(2 * dvn * restitution, totalMass)
        t1 == [this EXCEPT
                 !.vx = Mul(@ - Trunc(impulseWithRestitution * other.mass * nx, SCALE * SCALE),
                            COLLISION_DAMPING),
                 !.vy = Mul(@ - Trunc(impulseWithRestitution * other.mass * ny, SCALE * SCALE),
                            COLLISION_DAMPING)]
        o1 == [other EXCEPT
                 !.vx = Mul(@ + Trunc(impulseWithRestitution * this.mass * nx, SCALE * SCALE),
                            COLLISION_DAMPING),
                 !.vy = Mul(@ + Trunc(impulseWithRestitution * this.mass * ny, SCALE * SCALE),
                            COLLISION_DAMPING)]
    IN IF dvn > 0 THEN <<this, other>> ELSE <<t1, o1>>

\* ------------------------------------------------------------------------
\* Force generators (Force, GravityForce, WindForce)
\* ------------------------------------------------------------------------
GravityForce(strength) == [kind |-> "gravity", isActive |-> TRUE, strength |-> strength,
                           windX |-> 0, windY |-> 0]

WindForce(windX, windY) == [kind |-> "wind", isActive |-> TRUE, strength |-> 0,
                            windX |-> windX, windY |-> windY]

\* force.apply(object, deltaTime)
ForceApply(force, e) ==
    IF ~force.isActive \/ e.isStatic THEN e
    ELSE IF force.kind = "gravity" THEN [e EXCEPT !.ay = @ + force.strength]
    ELSE [e EXCEPT !.ax = @ + Trunc(force.windX - e.vx, 10),
                   !.ay = @ + Trunc(force.windY - e.vy, 10)]

RECURSIVE ApplyAllForces(_, _, _)
ApplyAllForces(forces, k, e) ==
    IF k > Len(forces) THEN e
    ELSE ApplyAllForces(forces, k + 1, ForceApply(forces[k], e))

\* ------------------------------------------------------------------------
\* PhysicsEngine: the per-entity body of each phase of fixedUpdate
\* ------------------------------------------------------------------------
\* body of the loop of applyForces
ApplyForcesTo(e, forces) ==
    IF e.isStatic THEN e
    ELSE ApplyAllForces(forces, 1,
                        IF e.gravity # 0 THEN [e EXCEPT !.ay = @ + e.gravity] ELSE e)

\* Math.pow(obj.friction, deltaTime * 60) with deltaTime = 1/120
FrictionFactor(friction) == ISqrt(friction * SCALE)

\* body of the loop of updatePositions
UpdatePositionOf(e) ==
    IF e.isStatic THEN e
    ELSE LET newX == e.x + Trunc(e.vx, StepRate) + Trunc(e.ax, 2 * StepRate * StepRate)
             newY == e.y + Trunc(e.vy, StepRate) + Trunc(e.ay, 2 * StepRate * StepRate)
             vx1 == e.vx + Trunc(e.ax, StepRate)
             vy1 == e.vy + Trunc(e.ay, StepRate)
             vx2 == IF e.friction # SCALE THEN Mul(vx1, FrictionFactor(e.friction)) ELSE vx1
             vy2 == IF e.friction # SCALE THEN Mul(vy1, FrictionFactor(e.friction)) ELSE vy1
             speed == ISqrt(vx2 * vx2 + vy2 * vy2)
             scale == IF speed > MAX_VELOCITY THEN Div(MAX_VELOCITY, speed) ELSE SCALE
         IN [e EXCEPT !.prevX = e.x, !.prevY = e.y,
                      !.vx = IF speed > MAX_VELOCITY THEN Mul(vx2, scale) ELSE vx2,
                      !.vy = IF speed > MAX_VELOCITY THEN Mul(vy2, scale) ELSE vy2,
                      !.x = newX, !.y = newY]

\* body of the loop of CollisionDetector.detectBoundaryCollisions
BoundaryCollisionAtEdge(e, width, height) ==
    IF ~e.isActive \/ e.isStatic THEN e
    ELSE LET e1 == IF e.x - e.radius < 0
                   THEN [e EXCEPT !.x = 0, !.vx = Mul(Abs(e.vx), e.bounce)]
                   ELSE IF e.x + e.radius > width
                        THEN [e EXCEPT !.x = width, !.vx = -Mul(Abs(e.vx), e.bounce)]
                        ELSE e
         IN IF e1.y - e1.radius < 0
            THEN [e1 EXCEPT !.y = 0, !.vy = Mul(Abs(e1.vy), e1.bounce)]
            ELSE IF e1.y + e1.radius > height
                 THEN [e1 EXCEPT !.y = height, !.vy = -Mul(Abs(e1.vy), e1.bounce)]
                 ELSE e1

BoundaryCollisionOf(e, width, height) ==
    IF ~e.isActive \/ e.isStatic THEN e
    ELSE LET e1 == IF e.x - e.radius < 0
                   THEN [e EXCEPT !.x = e.radius, !.vx = Mul(Abs(e.vx), e.bounce)]
                   ELSE IF e.x + e.radius > width
                        THEN [e EXCEPT !.x = width - e.radius,
                                       !.vx = -Mul(Abs(e.vx), e.bounce)]
                        ELSE e
         IN IF e1.y - e1.radius < 0
            THEN [e1 EXCEPT !.y = e1.radius, !.vy = Mul(Abs(e1.vy), e1.bounce)]
            ELSE IF e1.y + e1.radius > height
                 THEN [e1 EXCEPT !.y = height - e1.radius,
                                 !.vy = -Mul(Abs(e1.vy), e1.bounce)]
                 ELSE e1

\* body of the loop of resolveConstraints
ResolveConstraintsSkipped(e, width, height) == e

ResolveConstraintsOf(e, width, height) ==
    IF e.isStatic THEN e
    ELSE [e EXCEPT !.x = Clamp(e.x, e.radius, width - e.radius),
                   !.y = Clamp(e.y, e.radius, height - e.radius)]

\* body of the loop of resetForces
ResetForcesOf(e) == [e EXCEPT !.ax = 0, !.ay = 0]

\* ------------------------------------------------------------------------
\* SpatialGrid
\* ------------------------------------------------------------------------
GridCols == (WorldWidth + COLLISION_GRID_SIZE - 1) \div COLLISION_GRID_SIZE

GridRows == (WorldHeight + COLLISION_GRID_SIZE - 1) \div COLLISION_GRID_SIZE

GridCells == (0..(GridCols - 1)) \X (0..(GridRows - 1))

\* getCells(x, y, radius): the cell keys, column by column
GetCellsOfCentre(x, y, radius) ==
    IF x \div COLLISION_GRID_SIZE \in 0..(GridCols - 1)
       /\ y \div COLLISION_GRID_SIZE \in 0..(GridRows - 1)
    THEN <<<<x \div COLLISION_GRID_SIZE, y \div COLLISION_GRID_SIZE>>>>
    ELSE <<>>

GetCells(x, y, radius) ==
    LET minX == Max(0, (x - radius) \div COLLISION_GRID_SIZE)
        maxX == Min(GridCols - 1, (x + radius) \div COLLISION_GRID_SIZE)
        minY == Max(0, (y - radius) \div COLLISION_GRID_SIZE)
        maxY == Min(GridRows - 1, (y + radius) \div COLLISION_GRID_SIZE)
        ny == maxY - minY + 1
    IN IF maxX < minX \/ maxY < minY THEN <<>>
       ELSE [k \in 1..((maxX - minX + 1) * ny) |->
                <<minX + ((k - 1) \div ny), minY + ((k - 1) % ny)>>]

EmptyGrid == [c \in GridCells |-> <<>>]

\* addObject(obj, x, y, radius)
AddObject(grid, id, x, y, radius) ==
    LET cells == GetCells(x, y, radius)
    IN [c \in GridCells |-> IF c \in Range(cells) THEN Append(grid[c], id) ELSE grid[c]]

\* populateSpatialGrid(objects)
RECURSIVE PopulateSpatialGrid(_, _, _, _)
PopulateSpatialGrid(grid, os, ids, k) ==
    IF k > Len(ids) THEN grid
    ELSE PopulateSpatialGrid(AddObject(grid, ids[k], os[ids[k]].x, os[ids[k]].y,
                                       os[ids[k]].radius),
                             os, ids, k + 1)

\* insertion-ordered Set: the sequence without later repetitions
RECURSIVE Dedup(_, _, _)
Dedup(s, k, acc) ==
    IF k > Len(s) THEN acc
    ELSE Dedup(s, k + 1, IF s[k] \in Range(acc) THEN acc ELSE Append(acc, s[k]))

RECURSIVE ConcatBuckets(_, _, _)
ConcatBuckets(grid, cells, k) ==
    IF k > Len(cells) THEN <<>>
    ELSE grid[cells[k]] \o ConcatBuckets(grid, cells, k + 1)

\* getNearbyObjects(x, y, radius)
GetNearbyObjects(grid, x, y, radius) ==
    Dedup(ConcatBuckets(grid, GetCells(x, y, radius), 1), 1, <<>>)

\* the SpatialGrid driven call by call: its buckets, the number of calls
\* made and the last call with the buckets before it
VARIABLES spatialGrid, gridOps, gridLast

gridVars == <<spatialGrid, gridOps, gridLast>>

\* centres and radii handed to addObject and getNearbyObjects: left of the
\* grid, inside one cell, across the cell border at 50, right of the grid
GridXs == {-600, 2000, 5200, 10600}

GridYs == {2000, 5200}

GridRadii == {0, 500}

NoGridCall == [op |-> "none", id |-> 0, x |-> 0, y |-> 0, radius |-> 0,
               pre |-> EmptyGrid, result |-> <<>>]

IdleGrid == spatialGrid = EmptyGrid /\ gridOps = 0 /\ gridLast = NoGridCall

DoAddObject ==
    /\ gridOps < MaxGridOps
    /\ \E id \in 1..MaxGridObjects, x \in GridXs, y \in GridYs, r \in GridRadii :
          /\ spatialGrid' = AddObject(spatialGrid, id, x, y, r)
          /\ gridLast' = [op |-> "addObject", id |-> id, x |-> x, y |-> y, radius |-> r,
                          pre |-> spatialGrid, result |-> <<>>]
    /\ gridOps' = gridOps + 1

DoGetNearbyObjects ==
    /\ gridOps < MaxGridOps
    /\ \E x \in GridXs, y \in GridYs, r \in GridRadii :
          gridLast' = [op |-> "getNearbyObjects", id |-> 0, x |-> x, y |-> y,
                       radius |-> r, pre |-> spatialGrid,
                       result |-> GetNearbyObjects(spatialGrid, x, y, r)]
    /\ gridOps' = gridOps + 1
    /\ UNCHANGED spatialGrid

DoGridClear ==
    /\ gridOps < MaxGridOps
    /\ spatialGrid' = EmptyGrid
    /\ gridLast' = [NoGridCall EXCEPT !.op = "clear", !.pre = spatialGrid]
    /\ gridOps' = gridOps + 1

NextGrid ==
    \/ DoAddObject
    \/ DoGetNearbyObjects
    \/ DoGridClear

\* ------------------------------------------------------------------------
\* CollisionDetector
\* ------------------------------------------------------------------------
\* canCollide(objA, objB)
CanCollide(a, b) ==
    \/ b.collisionGroup \in a.collisionMask
    \/ a.collisionGroup \in b.collisionMask

\* checkCollision(objA, objB)
CheckCollision(a, b) ==
    /\ CanCollide(a, b)
    /\ LET dx == b.x - a.x
           dy == b.y - a.y
           radiusSum == a.radius + b.radius
       IN dx * dx + dy * dy < radiusSum * radiusSum

\* separateObjects(objA, objB, nx, ny, overlap)
SeparateObjects(a, b, nx, ny, overlap) ==
    LET totalMass == a.mass + b.mass
    IN IF ~a.isStatic /\ ~b.isStatic
       THEN LET separationA == Trunc(overlap * b.mass, 2 * totalMass)
                separationB == Trunc(overlap * a.mass, 2 * totalMass)
            IN <<[a EXCEPT !.x = @ - Mul(nx, separationA), !.y = @ - Mul(ny, separationA)],
                 [b EXCEPT !.x = @ + Mul(nx, separationB), !.y = @ + Mul(ny, separationB)]>>
       ELSE IF ~a.isStatic
            THEN <<[a EXCEPT !.x = @ - Mul(nx, overlap), !.y = @ - Mul(ny, overlap)], b>>
            ELSE IF ~b.isStatic
                 THEN <<a, [b EXCEPT !.x = @ + Mul(nx, overlap), !.y = @ + Mul(ny, overlap)]>>
                 ELSE <<a, b>>

\* resolveVelocities(objA, objB, nx, ny)
ResolveVelocities(a, b, nx, ny) ==
    LET velocityAlongNormal == Trunc((a.vx - b.vx) * nx + (a.vy - b.vy) * ny, SCALE)
        restitution == Min(a.bounce, b.bounce)
        j == -Mul(SCALE + restitution, velocityAlongNormal)
        impulse == Trunc(j * a.mass * b.mass, a.mass + b.mass)
        a1 == IF ~a.isStatic
              THEN [a EXCEPT !.vx = Mul(@ + Trunc(Mul(impulse, nx), a.mass), COLLISION_DAMPING),
                             !.vy = Mul(@ + Trunc(Mul(impulse, ny), a.mass), COLLISION_DAMPING)]
              ELSE a
        b1 == IF ~b.isStatic
              THEN [b EXCEPT !.vx = Mul(@ - Trunc(Mul(impulse, nx), b.mass), COLLISION_DAMPING),
                             !.vy = Mul(@ - Trunc(Mul(impulse, ny), b.mass), COLLISION_DAMPING)]
              ELSE b
    IN IF velocityAlongNormal > 0 THEN <<a, b>> ELSE <<a1, b1>>

\* resolveCollision(objA, objB); u is the value Math.random() returns
ResolveCollision(a, b, u) ==
    LET dx == b.x - a.x
        dy == b.y - a.y
        distance == ISqrt(dx * dx + dy * dy)
    IN IF distance = 0
       THEN LET separationDistance == Trunc(a.radius + b.radius, 2)
                sx == Mul(CosTurn(u), separationDistance)
                sy == Mul(SinTurn(u), separationDistance)
            IN <<[a EXCEPT !.x = @ - sx, !.y = @ - sy],
                 [b EXCEPT !.x = @ + sx, !.y = @ + sy]>>
       ELSE LET overlap == (a.radius + b.radius) - distance
                nx == Div(dx, distance)
                ny == Div(dy, distance)
                sep == SeparateObjects(a, b, nx, ny, overlap)
            IN IF overlap <= 0 THEN <<a, b>>
               ELSE ResolveVelocities(sep[1], sep[2], nx, ny)

\* generatePairId(objA, objB): the two ids, the smaller first
GeneratePairIdDirected(idA, idB) == <<idA, idB>>

GeneratePairId(idA, idB) == IF idA < idB THEN <<idA, idB>> ELSE <<idB, idA>>

\* Ball.onCollision(other)
BallOnCollision(ball, other) ==
    [ball EXCEPT !.collisionCount = @ + 1,
                 !.isCharged = IF other.type = "peg" THEN TRUE ELSE @]

\* Peg.onHit(ball) with Peg.applyEffectToBall: <<peg, ball>> after the call
PegOnHitAlwaysBonus(peg, ball) ==
    LET peg1 == [peg EXCEPT !.hitCount = @ + 1, !.energyLevel = Min(100, @ + 20)]
    IN <<peg1, [ball EXCEPT !.vx = Trunc(@ * 11, 10), !.vy = Trunc(@ * 11, 10)]>>

PegOnHit(peg, ball) ==
    LET peg1 == [peg EXCEPT !.hitCount = @ + 1, !.energyLevel = Min(100, @ + 20)]
    IN <<peg1,
         IF peg1.energyLevel > 50
         THEN [ball EXCEPT !.vx = Trunc(@ * 11, 10), !.vy = Trunc(@ * 11, 10)]
         ELSE ball>>

\* handleBallBallCollision(ballA, ballB)
HandleBallBallCollision(a, b) ==
    LET totalMass == a.mass + b.mass
        dx == b.x - a.x
        dy == b.y - a.y
        distance == ISqrt(dx * dx + dy * dy)
        nx == Div(dx, distance)
        ny == Div(dy, distance)
        v1n == Trunc(a.vx * nx + a.vy * ny, SCALE)
        v2n == Trunc(b.vx * nx + b.vy * ny, SCALE)
        newV1n == Mul(Trunc((a.mass - b.mass) * v1n + 2 * b.mass * v2n, totalMass),
                      BALL_BALL_BOUNCE)
        newV2n == Mul(Trunc((b.mass - a.mass) * v2n + 2 * a.mass * v1n, totalMass),
                      BALL_BALL_BOUNCE)
        a1 == IF distance > 0
              THEN [a EXCEPT !.vx = @ + Mul(newV1n - v1n, nx), !.vy = @ + Mul(newV1n - v1n, ny)]
              ELSE a
        b1 == IF distance > 0
              THEN [b EXCEPT !.vx = @ + Mul(newV2n - v2n, nx), !.vy = @ + Mul(newV2n - v2n, ny)]
              ELSE b
    IN <<BallOnCollision(a1, b1), BallOnCollision(b1, a1)>>

\* handleBallPegCollision(ball, peg): <<ball, peg>> after the call
HandleBallPegCollision(ball, peg, u) ==
    LET dx == ball.x - peg.x
        dy == ball.y - peg.y
        distance == ISqrt(dx * dx + dy * dy)
        nx == Div(dx, distance)
        ny == Div(dy, distance)
        normalVelocity == Trunc(ball.vx * nx + ball.vy * ny, SCALE)
        ball1 == IF distance > 0
                 THEN [ball EXCEPT
                         !.vx = @ - Mul(Mul(2 * normalVelocity, nx), ball.bounce)
                                  + Mul(u - 50, RANDOM_VELOCITY_RANGE),
                         !.vy = @ - Mul(Mul(2 * normalVelocity, ny), ball.bounce)
                                  + Trunc(Mul(u - 50, RANDOM_VELOCITY_RANGE), 2)]
                 ELSE ball
        hit == PegOnHit(peg, ball1)
    IN <<BallOnCollision(hit[2], hit[1]), hit[1]>>

\* onCollision(objA, objB) -> handleCollisionByType(objA, objB)
OnCollision(a, b, u) ==
    IF a.type = "ball" /\ b.type = "ball" THEN HandleBallBallCollision(a, b)
    ELSE IF a.type = "ball" /\ b.type = "peg" THEN HandleBallPegCollision(a, b, u)
    ELSE IF a.type = "peg" /\ b.type = "ball"
         THEN LET r == HandleBallPegCollision(b, a, u) IN <<r[2], r[1]>>
         ELSE <<a, b>>

\* the inner loop of detectCollisions over the neighbours of objA
RECURSIVE NearbyLoop(_, _, _, _, _)
NearbyLoop(cs, a, nearby, k, u) ==
    IF k > Len(nearby) THEN cs
    ELSE LET b == nearby[k]
             pairId == GeneratePairId(a, b)
         IN IF a = b \/ ~cs.objs[b].isActive THEN NearbyLoop(cs, a, nearby, k + 1, u)
            ELSE IF pairId \in cs.pairs THEN NearbyLoop(cs, a, nearby, k + 1, u)
            ELSE IF CheckCollision(cs.objs[a], cs.objs[b])
                 THEN LET r == ResolveCollision(cs.objs[a], cs.objs[b], u)
                          h == OnCollision(r[1], r[2], u)
                      IN NearbyLoop([objs |-> [cs.objs EXCEPT ![a] = h[1], ![b] = h[2]],
                                     pairs |-> cs.pairs \cup {pairId},
                                     resolved |-> Append(cs.resolved, <<a, b>>),
                                     touched |-> cs.touched \cup {a, b}],
                                    a, nearby, k + 1, u)
                 ELSE NearbyLoop([cs EXCEPT !.touched = @ \cup {a, b}], a, nearby, k + 1, u)

\* the outer loop of detectCollisions over activeObjects
RECURSIVE ObjectLoop(_, _, _, _, _)
ObjectLoop(cs, ids, i, grid, u) ==
    IF i > Len(ids) THEN cs
    ELSE LET a == cs.objs[ids[i]]
         IN IF ~a.isActive THEN ObjectLoop(cs, ids, i + 1, grid, u)
            ELSE ObjectLoop(NearbyLoop(cs, ids[i],
                                       GetNearbyObjects(grid, a.x, a.y, a.radius), 1, u),
                            ids, i + 1, grid, u)

\* detectCollisions(objects): entities after the pass, the pair ids of
\* currentFrameCollisions, the pairs resolved in order, the entities tested
DetectCollisions(os, ids, u) ==
    LET activeObjects == SelectSeq(ids, LAMBDA i : os[i].isActive /\ os[i].canCollide)
        grid == PopulateSpatialGrid(EmptyGrid, os, activeObjects, 1)
    IN ObjectLoop([objs |-> os, pairs |-> {}, resolved |-> <<>>, touched |-> {}],
                  activeObjects, 1, grid, u)

\* ------------------------------------------------------------------------
\* PhysicsEngine: update and fixedUpdate as a sequential process
\* ------------------------------------------------------------------------
VARIABLES objs, globalForces, timeAccumulator, subSteps, statsSubSteps, pc,
          activeIds, framesLeft, apiLeft, accAfterAdd, stepStart, touched,
          phaseLog, resolvedLog

physVars == <<objs, globalForces, timeAccumulator, subSteps, statsSubSteps, pc,
              activeIds, framesLeft, apiLeft, accAfterAdd, stepStart, touched,
              phaseLog, resolvedLog>>

\* two entities handled on their own: the pair, the number of calls made
\* and the last call with the pair before it
VARIABLES pair, pairOps, pairLast

\* a pooled ball with the callbacks setTimeout holds for it and the clock
VARIABLES timed

pairVars == <<pair, pairOps, pairLast, timed>>

\* GameState, the GameLoop, the particles of the ParticleSystem, the number
\* of input events handled and the last handler with the state before it
VARIABLES gameState, gameLoop, particles, gameOps, gameLast

\* GameState.stats.slotHitCounts and the call stack of a call of
\* recordSlotHit or onSlotHit
VARIABLES slotCall

gameVars == <<gameState, gameLoop, particles, gameOps, gameLast, slotCall>>

vars == <<pool, poolOps, last, objs, globalForces, timeAccumulator, subSteps,
          statsSubSteps, pc, activeIds, framesLeft, apiLeft, accAfterAdd, stepStart,
          touched, phaseLog, resolvedLog, spatialGrid, gridOps, gridLast,
          pair, pairOps, pairLast, timed, gameState, gameLoop, particles, gameOps,
          gameLast, slotCall>>

EntityIds == <<1, 2, 3>>

\* the calls fixedUpdate makes, in the order it makes them
FixedUpdatePhasesSwapped ==
    <<"applyForces", "updatePositions", "detectCollisions", "detectBoundaryCollisions",
      "resolveConstraints", "resetForces">>

FixedUpdatePhases ==
    <<"applyForces", "updatePositions", "detectBoundaryCollisions", "detectCollisions",
      "resolveConstraints", "resetForces">>

\* what follows a phase: the next call of fixedUpdate, or back to the loop
\* of update
AfterPhase(p) ==
    LET k == IndexOf(FixedUpdatePhases, p)
    IN IF k < Len(FixedUpdatePhases) THEN FixedUpdatePhases[k + 1] ELSE "loop"

\* objects.filter(obj => obj.isActive)
ActiveObjectsUnfiltered(os, ids) == ids

ActiveObjects(os, ids) == SelectSeq(ids, LAMBDA i : os[i].isActive)

\* the loop condition of update
LoopConditionStrict(acc, n) == acc > FixedTimeStep /\ n < MaxSubSteps

LoopCondition(acc, n) == acc >= FixedTimeStep /\ n < MaxSubSteps

\* frame times the game loop hands to update, in ticks
DtValues == {1, FixedTimeStep + 1, MaxDt}

\* entities the game is constructed with
BallAbovePeg == NewBall(5000, 4200, 0, 600, 1, GRAVITY, FRICTION)

BallOnPeg == NewBall(5000, 5000, 0, 0, 1, GRAVITY, SCALE)

BallAtWall == NewBall(300, 5000, -1200, 0, 2, 1200, 81)

BallBesidePeg == NewBall(5600, 5000, -600, 0, 2, GRAVITY, FRICTION)

BallNearWall == NewBall(1300, 5000, 0, 0, 1, GRAVITY, FRICTION)

InactiveBall == [Destroy(NewBall(5000, 4500, 300, 0, 1, GRAVITY, FRICTION)) EXCEPT !.ax = 100]

StaticBody == NewPhysicsEntity(5000, 5000, TRUE, GRAVITY, FRICTION)

DynamicBody == NewPhysicsEntity(5300, 5400, FALSE, GRAVITY, FRICTION)

Forces == <<GravityForce(1200), WindForce(1000, 0)>>

\* the worlds the engine is run on: three entities and the global forces
Worlds ==
    {<<BallAbovePeg, NewPeg(5000, 5000, 0), BallBesidePeg, <<>> >>,
     <<BallAbovePeg, NewPeg(5000, 5000, 40), InactiveBall, <<>> >>,
     <<BallOnPeg, NewPeg(5000, 5000, 0), InactiveBall, <<>> >>,
     <<BallOnPeg, StaticBody, DynamicBody, <<>> >>,
     <<BallAtWall, NewPeg(5000, 5000, 0), DynamicBody, Forces>>,
     <<BallAtWall, StaticBody, InactiveBall, Forces>>,
     <<BallAbovePeg, StaticBody, DynamicBody, Forces>>,
     <<BallOnPeg, NewPeg(5000, 5000, 40), BallBesidePeg, <<>> >>,
     <<BallAtWall, BallNearWall, InactiveBall, <<>> >>}

\* the engine right after construction, on world w
EngineStart(w) ==
    /\ objs = <<w[1], w[2], w[3]>>
    /\ globalForces = w[4]
    /\ timeAccumulator = 0
    /\ subSteps = 0
    /\ statsSubSteps = 0
    /\ pc = "idle"
    /\ activeIds = <<>>
    /\ accAfterAdd = 0
    /\ stepStart = objs
    /\ touched = {}
    /\ phaseLog = <<>>
    /\ resolvedLog = <<>>

InitPhysics ==
    /\ \E w \in Worlds : EngineStart(w)
    /\ framesLeft = MaxPhysicsFrames
    /\ apiLeft = MaxApiCalls

InitEngine ==
    /\ EngineStart(<<BallAbovePeg, NewPeg(5000, 5000, 0), BallBesidePeg, <<>> >>)
    /\ framesLeft = MaxFrames
    /\ apiLeft = 0

\* update(objects, deltaTime): the accumulator takes the frame time
UpdateWith(deltaTime) ==
    /\ pc = "idle"
    /\ framesLeft > 0
    /\ timeAccumulator' = timeAccumulator + deltaTime
    /\ accAfterAdd' = timeAccumulator + deltaTime
    /\ subSteps' = 0
    /\ framesLeft' = framesLeft - 1
    /\ stepStart' = objs
    /\ touched' = {}
    /\ resolvedLog' = <<>>
    /\ pc' = "loop"
    /\ UNCHANGED <<objs, globalForces, statsSubSteps, activeIds, apiLeft, phaseLog>>

UpdateBegin == \E dt \in DtValues : UpdateWith(dt)

\* the while test of update(objects, deltaTime): enter fixedUpdate on the
\* active ones of objects, or leave update
UpdateLoopOn(objects) ==
    /\ pc = "loop"
    /\ IF LoopCondition(timeAccumulator, subSteps)
       THEN /\ activeIds' = ActiveObjects(objs, objects)
            /\ stepStart' = objs
            /\ touched' = {}
            /\ phaseLog' = <<>>
            /\ resolvedLog' = <<>>
            /\ pc' = FixedUpdatePhases[1]
            /\ UNCHANGED statsSubSteps
       ELSE /\ statsSubSteps' = subSteps
            /\ pc' = "idle"
            /\ UNCHANGED <<activeIds, stepStart, touched, phaseLog, resolvedLog>>
    /\ UNCHANGED <<objs, globalForces, timeAccumulator, subSteps, framesLeft, apiLeft,
                   accAfterAdd>>

UpdateLoop == UpdateLoopOn(EntityIds)

\* leaving a phase of fixedUpdate; after the last one the loop of update
\* takes fixedTimeStep from the accumulator and counts the sub-step
PhaseDone(p) ==
    /\ phaseLog' = Append(phaseLog, p)
    /\ pc' = AfterPhase(p)
    /\ IF AfterPhase(p) = "loop"
       THEN /\ timeAccumulator' = timeAccumulator - FixedTimeStep
            /\ subSteps' = subSteps + 1
       ELSE UNCHANGED <<timeAccumulator, subSteps>>
    /\ UNCHANGED <<globalForces, statsSubSteps, activeIds, framesLeft, apiLeft, accAfterAdd,
                   stepStart>>

PhaseApplyForces ==
    /\ pc = "applyForces"
    /\ objs' = [i \in DOMAIN objs |->
                   IF i \in Range(activeIds) THEN ApplyForcesTo(objs[i], globalForces)
                   ELSE objs[i]]
    /\ PhaseDone("applyForces")
    /\ UNCHANGED <<touched, resolvedLog>>

PhaseUpdatePositions ==
    /\ pc = "updatePositions"
    /\ objs' = [i \in DOMAIN objs |->
                   IF i \in Range(activeIds) THEN UpdatePositionOf(objs[i]) ELSE objs[i]]
    /\ PhaseDone("updatePositions")
    /\ UNCHANGED <<touched, resolvedLog>>

PhaseDetectBoundaryCollisions ==
    /\ pc = "detectBoundaryCollisions"
    /\ objs' = [i \in DOMAIN objs |->
                   IF i \in Range(activeIds)
                   THEN BoundaryCollisionOf(objs[i], WorldWidth, WorldHeight)
                   ELSE objs[i]]
    /\ PhaseDone("detectBoundaryCollisions")
    /\ UNCHANGED <<touched, resolvedLog>>

PhaseDetectCollisions ==
    /\ pc = "detectCollisions"
    /\ \E u \in RandomValues :
          LET cs == DetectCollisions(objs, activeIds, u)
          IN /\ objs' = cs.objs
             /\ touched' = cs.touched
             /\ resolvedLog' = cs.resolved
    /\ PhaseDone("detectCollisions")

PhaseResolveConstraints ==
    /\ pc = "resolveConstraints"
    /\ objs' = [i \in DOMAIN objs |->
                   IF i \in Range(activeIds)
                   THEN ResolveConstraintsOf(objs[i], WorldWidth, WorldHeight)
                   ELSE objs[i]]
    /\ PhaseDone("resolveConstraints")
    /\ UNCHANGED <<touched, resolvedLog>>

PhaseResetForces ==
    /\ pc = "resetForces"
    /\ objs' = [i \in DOMAIN objs |->
                   IF i \in Range(activeIds) THEN ResetForcesOf(objs[i]) ELSE objs[i]]
    /\ PhaseDone("resetForces")
    /\ UNCHANGED <<touched, resolvedLog>>

\* calls made on the entities between two frames
ApiCall(newObjs) ==
    /\ pc = "idle"
    /\ apiLeft > 0
    /\ objs' = newObjs
    /\ stepStart' = objs
    /\ apiLeft' = apiLeft - 1
    /\ UNCHANGED <<globalForces, timeAccumulator, subSteps, statsSubSteps, pc, activeIds,
                   framesLeft, accAfterAdd, touched, phaseLog, resolvedLog>>

CallApplyForce ==
    \E i \in DOMAIN objs : ApiCall([objs EXCEPT ![i] = ApplyForce(@, 100, -200)])

CallApplyImpulse ==
    \E i \in DOMAIN objs : ApiCall([objs EXCEPT ![i] = ApplyImpulse(@, 100, -200)])

CallDestroy ==
    \E i \in DOMAIN objs : ApiCall([objs EXCEPT ![i] = Destroy(@)])

CallResolveCollision ==
    \E i, j \in DOMAIN objs, u \in RandomValues :
       LET r == EntityResolveCollision(objs[i], objs[j], i = j, u)
       IN /\ i # j
          /\ ApiCall([objs EXCEPT ![i] = r[1], ![j] = r[2]])

NextEngine ==
    \/ UpdateBegin
    \/ UpdateLoop
    \/ PhaseApplyForces
    \/ PhaseUpdatePositions
    \/ PhaseDetectBoundaryCollisions
    \/ PhaseDetectCollisions
    \/ PhaseResolveConstraints
    \/ PhaseResetForces

NextPhysics ==
    \/ NextEngine
    \/ CallApplyForce
    \/ CallApplyImpulse
    \/ CallDestroy
    \/ CallResolveCollision

\* new PhysicsEntity(x, y, {collisionGroup, collisionMask})
GroupedEntity(x, y, group, mask) ==
    [NewPhysicsEntity(x, y, FALSE, GRAVITY, FRICTION) EXCEPT
        !.collisionGroup = group, !.collisionMask = mask]

CollisionGroups == {"ball", "peg"}

\* pairs of entities of every group and mask, apart, overlapping and on
\* the same centre
MaskPairs ==
    {<<GroupedEntity(5000, 5000, ga, ma), GroupedEntity(5000 + d, 5000, gb, mb)>> :
        ga \in CollisionGroups, ma \in SUBSET CollisionGroups,
        gb \in CollisionGroups, mb \in SUBSET CollisionGroups,
        d \in {0, 600}}
    \cup {<<GroupedEntity(5000, 5000, "ball", {"peg"}),
            GroupedEntity(7000, 5000, "peg", {"ball"})>>}

\* a dynamic body of the given mass and a static one
MassBody(x, y, mass) ==
    [NewPhysicsEntity(x, y, FALSE, GRAVITY, FRICTION) EXCEPT !.mass = mass]

BodyMasses == {1, 2, 3}

\* where the second body of an overlapping pair lies from the first
OverlapOffsets == {<<600, 0>>, <<300, 400>>, <<-200, 0>>, <<0, -900>>}

\* overlapping pairs: two dynamic bodies of any masses, and a dynamic body
\* with a static one on either side
OverlapPairs ==
    {<<MassBody(5000, 5000, ma), MassBody(5000 + d[1], 5000 + d[2], mb)>> :
        ma \in BodyMasses, mb \in BodyMasses, d \in OverlapOffsets}
    \cup {<<MassBody(5000, 5000, ma), NewStaticPhysicsEntity(5000 + d[1], 5000 + d[2])>> :
             ma \in BodyMasses, d \in OverlapOffsets}
    \cup {<<NewStaticPhysicsEntity(5000, 5000), MassBody(5000 + d[1], 5000 + d[2], mb)>> :
             mb \in BodyMasses, d \in OverlapOffsets}

\* a ball of the given bounce falling at speed v, its centre d above the
\* centre of a peg
FallingBall(d, v, bounce) ==
    [NewBall(5000, 5000 - d, 0, v, 1, GRAVITY, FRICTION) EXCEPT !.bounce = bounce]

BallBounces == {30, 50, BOUNCE, 98, SCALE}

FallSpeeds == {200, 600}

\* a ball coming down on a peg, in either order of the pair
DropPairs ==
    {<<FallingBall(d, v, bounce), NewPeg(5000, 5000, energy)>> :
        d \in {700, 1000}, v \in FallSpeeds, bounce \in BallBounces, energy \in {0, 40}}
    \cup {<<NewPeg(5000, 5000, energy), FallingBall(d, v, bounce)>> :
             d \in {700, 1000}, v \in FallSpeeds, bounce \in BallBounces, energy \in {0, 40}}

\* a ball moving at (vx, vy)
MovingBall(x, y, vx, vy, mass) == NewBall(x, y, vx, vy, mass, GRAVITY, FRICTION)

BallSpeeds == {-300, 0, 300}

\* two overlapping balls, each moving along the line of their centres or
\* resting, the second to the right of the first or below it to the right
MovingPairs ==
    {<<MovingBall(5000, 5000, va, 0, ma), MovingBall(5000 + d[1], 5000 + d[2], vb, 0, mb)>> :
        va \in BallSpeeds, vb \in BallSpeeds, ma \in {1, 2}, mb \in {1, 2},
        d \in {<<600, 0>>, <<600, 800>>}}

\* a moving ball outside the world, across one of its edges, or inside it,
\* with the peg of the board
EdgePairs ==
    {<<MovingBall(x, y, vx, vy, 1), NewPeg(5000, 5000, 0)>> :
        x \in {-300, 300, 2500, WorldWidth - 300, WorldWidth + 300},
        y \in {-300, 300, 2500, WorldHeight - 300, WorldHeight + 300},
        vx \in {-300, 300}, vy \in {-300, 300}}

PairInputs == MaskPairs \cup OverlapPairs \cup DropPairs \cup MovingPairs \cup EdgePairs

NoPairCall == [op |-> "none", pre |-> <<>>, u |-> 0, result |-> <<>>]

\* the time in ticks of 100 ms: the delay of the callback of
\* Ball.onCollision that clears isCharged, and of the callback of
\* Peg.applyEffectToBall that restores the colour
CHARGE_TICKS == 5

COLOR_TICKS == 2

\* Utils.Color.generateRandomCyberColor() returns one of these
CyberColors == {"cyan", "magenta"}

\* the ball right after ballPool.acquire handed it out for the first time:
\* lease counts the acquire calls that returned it, timers is the set of
\* pending callbacks, each with the lease it was set in; chargedAt,
\* chargedLease and staleChange keep the time and lease of the last peg hit
\* and whether a callback of an earlier lease has changed the ball
NewTimed(color) ==
    [now |-> 0, ops |-> 0, timers |-> {}, inUse |-> TRUE, lease |-> 1,
     isCharged |-> FALSE, color |-> color, chargedAt |-> 0, chargedLease |-> 0,
     staleChange |-> FALSE]

IdlePair == pair = <<BallAbovePeg, NewPeg(5000, 5000, 0)>> /\ pairOps = 0
            /\ pairLast = NoPairCall /\ timed = NewTimed("cyan")

InitPair ==
    /\ pair \in PairInputs
    /\ pairOps = 0
    /\ pairLast = NoPairCall
    /\ timed = NewTimed("cyan")

\* a.isCollidingWith(b) and b.isCollidingWith(a)
DoIsCollidingWith ==
    /\ pairOps < MaxPairOps
    /\ pairLast' = [op |-> "isCollidingWith", pre |-> pair, u |-> 0,
                    result |-> <<IsCollidingWith(pair[1], pair[2], FALSE),
                                 IsCollidingWith(pair[2], pair[1], FALSE)>>]
    /\ pairOps' = pairOps + 1
    /\ UNCHANGED pair

\* CollisionDetector.resolveCollision(a, b)
DoResolveCollision ==
    /\ pairOps < MaxPairOps
    /\ \E u \in RandomValues :
          /\ pair' = ResolveCollision(pair[1], pair[2], u)
          /\ pairLast' = [op |-> "resolveCollision", pre |-> pair, u |-> u, result |-> <<>>]
    /\ pairOps' = pairOps + 1

\* what detectCollisions does with a pair: checkCollision, and on a hit
\* resolveCollision followed by onCollision
DoCollide ==
    /\ pairOps < MaxPairOps
    /\ \E u \in RandomValues :
          LET hit == CheckCollision(pair[1], pair[2])
              r == ResolveCollision(pair[1], pair[2], u)
          IN /\ pair' = IF hit THEN OnCollision(r[1], r[2], u) ELSE pair
             /\ pairLast' = [op |-> "collide", pre |-> pair, u |-> u,
                             result |-> <<hit, hit>>]
    /\ pairOps' = pairOps + 1

\* CollisionDetector.resolveVelocities(a, b, nx, ny) with the normal
\* resolveCollision passes, the unit vector from a to b
DoResolveVelocities ==
    /\ pairOps < MaxPairOps
    /\ Distance(pair[1], pair[2]) > 0
    /\ LET nx == Div(pair[2].x - pair[1].x, Distance(pair[1], pair[2]))
           ny == Div(pair[2].y - pair[1].y, Distance(pair[1], pair[2]))
       IN pair' = ResolveVelocities(pair[1], pair[2], nx, ny)
    /\ pairLast' = [op |-> "resolveVelocities", pre |-> pair, u |-> 0, result |-> <<>>]
    /\ pairOps' = pairOps + 1

\* a.resolveElasticCollision(b, nx, ny) as a.resolveCollision(b) calls it:
\* on two dynamic bodies, with the unit vector from a to b
DoResolveElasticCollision ==
    /\ pairOps < MaxPairOps
    /\ Distance(pair[1], pair[2]) > 0
    /\ ~pair[1].isStatic /\ ~pair[2].isStatic
    /\ LET nx == Div(pair[2].x - pair[1].x, Distance(pair[1], pair[2]))
           ny == Div(pair[2].y - pair[1].y, Distance(pair[1], pair[2]))
       IN pair' = ResolveElasticCollision(pair[1], pair[2], nx, ny)
    /\ pairLast' = [op |-> "resolveElasticCollision", pre |-> pair, u |-> 0,
                    result |-> <<>>]
    /\ pairOps' = pairOps + 1

\* PhysicsEngine.resolveConstraints(objects) on the two bodies
DoResolveConstraints ==
    /\ pairOps < MaxPairOps
    /\ pair' = <<ResolveConstraintsOf(pair[1], WorldWidth, WorldHeight),
                 ResolveConstraintsOf(pair[2], WorldWidth, WorldHeight)>>
    /\ pairLast' = [op |-> "resolveConstraints", pre |-> pair, u |-> 0, result |-> <<>>]
    /\ pairOps' = pairOps + 1

\* CollisionDetector.detectBoundaryCollisions(objects) on the two bodies
DoDetectBoundaryCollisions ==
    /\ pairOps < MaxPairOps
    /\ pair' = <<BoundaryCollisionOf(pair[1], WorldWidth, WorldHeight),
                 BoundaryCollisionOf(pair[2], WorldWidth, WorldHeight)>>
    /\ pairLast' = [op |-> "detectBoundaryCollisions", pre |-> pair, u |-> 0,
                    result |-> <<>>]
    /\ pairOps' = pairOps + 1

NextPair ==
    \/ DoIsCollidingWith
    \/ DoResolveCollision
    \/ DoCollide
    \/ DoResolveVelocities
    \/ DoResolveElasticCollision
    \/ DoResolveConstraints
    \/ DoDetectBoundaryCollisions

\* ------------------------------------------------------------------------
\* Timed callbacks on a pooled ball
\* ------------------------------------------------------------------------
\* handleBallPegCollision on the ball: peg.onHit(ball) with
\* applyEffectToBall (the colour becomes the peg's active colour, a callback
\* restores the colour read before) and ball.onCollision(peg) (isCharged is
\* set, a callback clears it)
TimedPegHit ==
    /\ timed.inUse
    /\ timed.ops < MaxTimerOps
    /\ timed' = [timed EXCEPT
                    !.ops = @ + 1,
                    !.color = "pegActive",
                    !.isCharged = TRUE,
                    !.chargedAt = timed.now,
                    !.chargedLease = timed.lease,
                    !.timers = @ \cup {[kind |-> "color", due |-> timed.now + COLOR_TICKS,
                                        color |-> timed.color, lease |-> timed.lease],
                                       [kind |-> "charge", due |-> timed.now + CHARGE_TICKS,
                                        color |-> "", lease |-> timed.lease]}]

\* the ball after the callback t has run
AfterCallback(t) ==
    IF t.kind = "charge" THEN [timed EXCEPT !.isCharged = FALSE]
    ELSE [timed EXCEPT !.color = t.color]

\* a callback runs when its delay has passed
TimerFires ==
    \E t \in timed.timers :
       /\ t.due <= timed.now
       /\ timed' = [AfterCallback(t) EXCEPT
                       !.timers = @ \ {t},
                       !.staleChange = @ \/ (/\ timed.inUse
                                            /\ t.lease # timed.lease
                                            /\ AfterCallback(t) # timed)]

\* 100 ms pass; the callbacks that are due run first
ClockTick ==
    /\ timed.now < MaxClock
    /\ \A t \in timed.timers : t.due > timed.now
    /\ timed' = [timed EXCEPT !.now = @ + 1]

\* ballPool.release(ball), from GameLoop.removeBall
TimedRelease ==
    /\ timed.inUse
    /\ timed.ops < MaxTimerOps
    /\ timed' = [timed EXCEPT !.ops = @ + 1, !.inUse = FALSE]

\* ballPool.acquire(x, y, options) returns the ball again: the reset
\* function of BallPool calls Ball.reset
TimedAcquire ==
    /\ ~timed.inUse
    /\ timed.ops < MaxTimerOps
    /\ \E color \in CyberColors :
          timed' = [timed EXCEPT !.ops = @ + 1, !.inUse = TRUE, !.lease = @ + 1,
                                 !.isCharged = FALSE, !.color = color]

NextTimer ==
    \/ TimedPegHit
    \/ TimerFires
    \/ ClockTick
    \/ TimedRelease
    \/ TimedAcquire

\* ------------------------------------------------------------------------
\* GameState, GameLoop and the drop handlers
\* ------------------------------------------------------------------------
\* the peg of the board among the game objects; balls are known by the
\* number the ball pool gave them
PegId == 0

INITIAL_Y == 2000

\* Ball.checkSlotCollision: the slots start at CANVAS_HEIGHT - SLOT.HEIGHT - 20
SlotLine == WorldHeight - 1000

\* CONFIG.SLOT.COUNT and CONFIG.SLOT.POINTS
SLOT_COUNT == 7

SLOT_POINTS == <<50, 200, 500, 1000, 500, 200, 50>>

\* ParticleSystem.maxParticles
MAX_PARTICLES == 150

EXPLOSION_PARTICLES == 20

MAX_SKIP_FRAMES == 5

CLEANUP_FRAMES == 300

\* where the mouse is when a ball is dropped, and the sideways velocity the
\* drop draws
MouseXs == {5000}

DropVxs == {0, RANDOM_VELOCITY_RANGE \div 4}

\* lives drawn for sparks, out of 15..30, and for explosion particles, out
\* of 20..40
SparkLives == {15}

ExplosionLives == {20}

\* GameState.addBall(ball): GameState after the call and the value returned;
\* cap is CONFIG.GAME.MAX_BALLS_ON_SCREEN
AddBallUncapped(gs, ball, cap) ==
    [state |-> [gs EXCEPT !.balls = Append(@, ball)], result |-> TRUE]

AddBall(gs, ball, cap) ==
    IF Len(gs.balls) >= cap THEN [state |-> gs, result |-> FALSE]
    ELSE [state |-> [gs EXCEPT !.balls = Append(@, ball)], result |-> TRUE]

\* GameState.endGame(); gamesEnded counts the calls
EndGame(gs) == [gs EXCEPT !.isGameOver = TRUE, !.gamesEnded = @ + 1]

\* GameState.decrementBallCount()
DecrementBallCount(gs) ==
    LET gs1 == [gs EXCEPT !.ballCount = @ - 1, !.totalBallsDropped = @ + 1]
    IN IF gs1.ballCount <= 0 /\ Len(gs1.balls) = 0 THEN EndGame(gs1) ELSE gs1

\* GameState.pauseGame()
PauseGame(gs) == [gs EXCEPT !.isPaused = ~@]

\* GameState.cleanupInactiveBalls(): balls becomes a new array
CleanupInactiveBalls(gs, os) ==
    [gs EXCEPT !.balls = SelectSeq(@, LAMBDA b : os[b].isActive)]

\* the test both drop handlers start with
DropRefused(gs) == gs.ballCount <= 0 \/ gs.isPaused \/ gs.isGameOver

\* the pause test of GameLoop.loop: TRUE when the frame updates the game
PauseCheckLoopOnly(loopPaused, statePaused) == ~loopPaused

PauseCheck(loopPaused, statePaused) == ~loopPaused /\ ~statePaused

\* ParticleSystem.createSparks / createExplosion: count particles of one
\* life pushed while the system holds fewer than maxParticles
RECURSIVE CreateParticles(_, _, _)
CreateParticles(ps, count, life) ==
    IF count <= 0 \/ Len(ps) >= MAX_PARTICLES THEN ps
    ELSE CreateParticles(Append(ps, life), count - 1, life)

\* ParticleSystem.update(), and ParticlePool.updateAndCleanup on its
\* result: every particle ages once in each, the dead ones are dropped
AgeParticles(ps) ==
    SelectSeq([k \in DOMAIN ps |-> ps[k] - 1], LAMBDA life : life > 0)

UpdateParticles(ps) == AgeParticles(AgeParticles(ps))

\* ParticleSystem.createSlotHitEffect(x, y, points, color) followed by the
\* explosion of Ball.destroy(); lifeE and lifeS are the lives drawn for
\* explosion particles and for sparks
SlotHitParticles(ps, points, lifeE, lifeS) ==
    LET ps1 == CreateParticles(ps, Min((EXPLOSION_PARTICLES * points) \div 500,
                                       3 * EXPLOSION_PARTICLES), lifeE)
        ps2 == CreateParticles(ps1, Min((10 * points) \div 500, 30), lifeS)
        ps3 == Append(ps2, 90)
    IN CreateParticles(ps3, (EXPLOSION_PARTICLES * 8) \div 10, lifeE)

\* Ball.update(): the ball after checkSlotCollision and checkOutOfBounds,
\* and the points it scored, -1 when it fell into no slot
BallUpdate(ball) ==
    LET slotIndex == ball.x \div (WorldWidth \div SLOT_COUNT)
        inSlot == ball.y > SlotLine /\ slotIndex >= 0 /\ slotIndex < SLOT_COUNT
        b1 == IF inSlot THEN Destroy(ball) ELSE ball
    IN [ball |-> IF b1.y > WorldHeight + 5000 THEN Destroy(b1) ELSE b1,
        points |-> IF inSlot THEN SLOT_POINTS[slotIndex + 1] ELSE -1]

\* Peg.update(): energyLevel decays by energyDecayRate, half a unit, so
\* by one unit on every second call
PegUpdate(peg, half) == IF half THEN [peg EXCEPT !.energyLevel = Max(0, @ - 1)] ELSE peg

\* GameLoop.removeBall(ball, index) on g = [state, balls, shared, os, pl, ps]:
\* the ball goes back to the pool and leaves gameObjects.balls, which is
\* GameState.balls as long as the two are the same array
RemoveBall(g, i) ==
    LET balls1 == RemoveAt(g.balls, i)
        st1 == IF g.shared THEN [g.state EXCEPT !.balls = balls1] ELSE g.state
        st2 == IF st1.ballCount <= 0 /\ Len(balls1) = 0 /\ ~st1.isGameOver
               THEN EndGame(st1) ELSE st1
    IN [g EXCEPT !.pl = Release(@, g.balls[i]).pool, !.balls = balls1, !.state = st2]

\* the loop of GameLoop.updateBalls, from the last ball to the first
RECURSIVE UpdateBallsFrom(_, _, _, _)
UpdateBallsFrom(g, i, lifeE, lifeS) ==
    IF i < 1 THEN g
    ELSE LET id == g.balls[i]
         IN IF g.os[id].isActive
            THEN LET r == BallUpdate(g.os[id])
                     g1 == [g EXCEPT !.os[id] = r.ball,
                                     !.state.score = @ + Max(r.points, 0),
                                     !.ps = IF r.points >= 0
                                            THEN SlotHitParticles(@, r.points, lifeE, lifeS)
                                            ELSE @]
                 IN UpdateBallsFrom(IF r.ball.y > WorldHeight + 10000
                                    THEN RemoveBall(g1, i) ELSE g1,
                                    i - 1, lifeE, lifeS)
            ELSE UpdateBallsFrom(RemoveBall(g, i), i - 1, lifeE, lifeS)

\* PoolManager.optimizePoolSize(pool)
OptimizePoolSize(p) ==
    LET availableCount == Len(p.available)
        inUseCount == Cardinality(p.inUse)
        lowHitRate == p.stats.acquired > 0 => p.stats.poolHits * 2 < p.stats.acquired
    IN IF lowHitRate /\ availableCount > 10
       THEN Resize(p, Max(10, (availableCount * 8) \div 10))
       ELSE IF inUseCount > availableCount * 2
            THEN Resize(p, Min(p.maxSize, availableCount + 10))
            ELSE p

\* GameLoop.updateObjectPools(): by the clock and the heap nothing is due,
\* the periodic cleanup with its integrity check is due, or memory is short
UpdateObjectPools(p, due) ==
    IF due = "none" THEN p
    ELSE IF due = "periodic" THEN ValidateIntegrity(OptimizePoolSize(p)).pool
    ELSE EmergencyCleanupOf(p).pool

PoolDues == {"none", "periodic", "emergency"}

\* a pool constructed with maxSize MaxOptimizedSize, on which the client
\* calls acquire and release and the PoolManager optimizePoolSize
InitOptimize ==
    /\ \E initialSize \in 0..MaxOptimizedSize :
          pool = NewPool(initialSize, MaxOptimizedSize)
    /\ poolOps = 0
    /\ last = NoCall

OptimizeAcquire ==
    /\ poolOps < MaxOptimizeOps
    /\ LET r == Acquire(pool)
       IN /\ pool' = r.pool
          /\ last' = [op |-> "acquire", obj |-> Null, result |-> r.result, pre |-> pool]
    /\ poolOps' = poolOps + 1

OptimizeRelease ==
    /\ poolOps < MaxOptimizeOps
    /\ \E obj \in pool.inUse :
          LET r == Release(pool, obj)
          IN /\ pool' = r.pool
             /\ last' = [op |-> "release", obj |-> obj, result |-> r.result, pre |-> pool]
    /\ poolOps' = poolOps + 1

\* PoolManager.optimizePoolSize(pool, poolName)
DoOptimizePoolSize ==
    /\ poolOps < MaxOptimizeOps
    /\ pool' = OptimizePoolSize(pool)
    /\ last' = [op |-> "optimizePoolSize", obj |-> Null, result |-> Null, pre |-> pool]
    /\ poolOps' = poolOps + 1

NextOptimize ==
    \/ OptimizeAcquire
    \/ OptimizeRelease
    \/ DoOptimizePoolSize

\* what no handler has run yet looks like
NoGameCall == [op |-> "none", result |-> FALSE, state |-> <<>>, loop |-> <<>>,
               pool |-> <<>>, particles |-> <<>>, objs |-> <<>>,
               timeAccumulator |-> 0, statsSubSteps |-> 0]

\* the state a handler starts from, kept with its name and result
GameCall(op, result) ==
    [op |-> op, result |-> result, state |-> gameState, loop |-> gameLoop,
     pool |-> pool, particles |-> particles, objs |-> objs,
     timeAccumulator |-> timeAccumulator, statsSubSteps |-> statsSubSteps]

\* GameState after initialize(), ballCount balls left to drop
NewGameState(ballCount) ==
    [ballCount |-> ballCount, balls |-> <<>>, isPaused |-> FALSE, isGameOver |-> FALSE,
     totalBallsDropped |-> 0, score |-> 0, gamesEnded |-> 0]

\* the GameLoop after initialize() and start(): balls is gameObjects.balls
\* and shared tells that it is the array GameState.balls is
NewGameLoop(updateFrequency) ==
    [isRunning |-> TRUE, isPaused |-> FALSE, frameCount |-> 0, skipFrames |-> 0,
     updateCounter |-> 0, updateFrequency |-> updateFrequency,
     balls |-> <<>>, shared |-> TRUE, inUpdate |-> FALSE, pegHalf |-> FALSE,
     renderCount |-> 0, scheduleCount |-> 0]

\* stats.slotHitCounts after initialize() and no call under way: pc is the
\* function on top of the call stack, depth the number of frames on it, pre
\* the counts when the call began
NewSlotCall ==
    [pc |-> "idle", depth |-> 0, slotIndex |-> 0, calls |-> 0,
     slotHitCounts |-> [i \in 0..(SLOT_COUNT - 1) |-> 0],
     pre |-> [i \in 0..(SLOT_COUNT - 1) |-> 0]]

\* a call of f from the function on top of the stack: a new frame, or a
\* RangeError when the stack is full
CallFrom(sc, f) ==
    IF sc.depth < MaxStackDepth THEN [sc EXCEPT !.pc = f, !.depth = @ + 1]
    ELSE [sc EXCEPT !.pc = "RangeError"]

\* GameState.recordSlotHit(slotIndex, points) or
\* GameState.onSlotHit(slotIndex, points) is called
CallSlotHit ==
    /\ slotCall.pc = "idle"
    /\ slotCall.calls < MaxSlotCalls
    /\ \E slotIndex \in -1..SLOT_COUNT, f \in {"recordSlotHit", "onSlotHit"} :
          slotCall' = [slotCall EXCEPT !.pc = f, !.depth = 1, !.slotIndex = slotIndex,
                                       !.calls = @ + 1, !.pre = slotCall.slotHitCounts]

\* the body of recordSlotHit: the count of a valid slot goes up, then
\* this.onSlotHit(slotIndex, points)
RecordSlotHit ==
    /\ slotCall.pc = "recordSlotHit"
    /\ LET i == slotCall.slotIndex
           counted == IF i >= 0 /\ i < SLOT_COUNT
                      THEN [slotCall EXCEPT !.slotHitCounts[i] = @ + 1]
                      ELSE slotCall
       IN slotCall' = CallFrom(counted, "onSlotHit")

\* the body of onSlotHit up to its first statement,
\* this.recordSlotHit(slotIndex, points)
OnSlotHit ==
    /\ slotCall.pc = "onSlotHit"
    /\ slotCall' = CallFrom(slotCall, "recordSlotHit")

\* the RangeError unwinds the stack and reaches the caller
SlotHitThrows ==
    /\ slotCall.pc = "RangeError"
    /\ slotCall' = [slotCall EXCEPT !.pc = "idle", !.depth = 0]

NextSlotHit ==
    \/ CallSlotHit
    \/ RecordSlotHit
    \/ OnSlotHit
    \/ SlotHitThrows

\* the game idle, for the specifications that do not run it
IdleGame ==
    /\ slotCall = NewSlotCall
    /\ gameState = NewGameState(0)
    /\ gameLoop = NewGameLoop(1)
    /\ particles = <<>>
    /\ gameOps = 0
    /\ gameLast = NoGameCall

\* the ball pool of the game after two drops and the removal of the first
\* ball
PoolAfterRemoval ==
    Release(Acquire(Acquire(NewPool(1, MaxPoolSize)).pool).pool, 1).pool

\* the game right after start, or in progress with one ball above the slots
\* and the two ball lists still the same array, or in progress after the
\* cleanups of frames 0 and 300: ball 1, dropped before the first frame, has
\* reached a slot, has left gameObjects.balls and has been filtered out of
\* GameState.balls; ball 2, dropped after frame 0, is in GameState.balls only
InitGame ==
    /\ slotCall = NewSlotCall
    /\ poolOps = 0
    /\ last = NoCall
    /\ globalForces = <<>>
    /\ timeAccumulator = 0
    /\ subSteps = 0
    /\ statsSubSteps = 0
    /\ pc = "idle"
    /\ activeIds = <<>>
    /\ accAfterAdd = 0
    /\ touched = {}
    /\ phaseLog = <<>>
    /\ resolvedLog = <<>>
    /\ framesLeft = MaxGameFrames
    /\ apiLeft = 0
    /\ particles = <<>>
    /\ gameOps = 0
    /\ gameLast = NoGameCall
    /\ \E updateFrequency \in {1, 2} :
          \/ /\ pool = NewPool(1, MaxPoolSize)
             /\ objs = (PegId :> NewPeg(5000, 5000, 0))
             /\ gameState = NewGameState(InitialBallCount)
             /\ gameLoop = NewGameLoop(updateFrequency)
          \/ /\ pool = Acquire(NewPool(1, MaxPoolSize)).pool
             /\ objs = (PegId :> NewPeg(5000, 5000, 0))
                       @@ (1 :> NewBall(2500, SlotLine - 2, 0, 600, 1, GRAVITY, FRICTION))
             /\ gameState = [NewGameState(InitialBallCount - 1) EXCEPT
                                !.balls = <<1>>, !.totalBallsDropped = 1]
             /\ gameLoop = [NewGameLoop(updateFrequency) EXCEPT !.balls = <<1>>,
                                                                !.frameCount = 1]
          \/ /\ updateFrequency = 1
             /\ pool = PoolAfterRemoval
             /\ objs = (PegId :> NewPeg(5000, 5000, 0))
                       @@ (1 :> Destroy(NewBall(2500, SlotLine + 10, 0, 600, 1, GRAVITY,
                                                FRICTION)))
                       @@ (2 :> NewBall(5000, INITIAL_Y, 0, 0, 1, GRAVITY, FRICTION))
             /\ gameState = [NewGameState(InitialBallCount - 2) EXCEPT
                                !.balls = <<2>>, !.totalBallsDropped = 2,
                                !.score = SLOT_POINTS[2]]
             /\ gameLoop = [NewGameLoop(updateFrequency) EXCEPT
                                !.shared = FALSE, !.frameCount = CLEANUP_FRAMES + 1,
                                !.updateCounter = CLEANUP_FRAMES + 1,
                                !.renderCount = CLEANUP_FRAMES + 1,
                                !.scheduleCount = CLEANUP_FRAMES + 1,
                                !.pegHalf = TRUE]
    /\ stepStart = objs

\* an input handler runs between two frames
BetweenFrames ==
    /\ ~gameLoop.inUpdate
    /\ gameOps < MaxGameOps
    /\ gameOps' = gameOps + 1

\* what the game leaves alone of the engine and the pool when a handler runs
HandlerFrame ==
    UNCHANGED <<poolOps, last, globalForces, timeAccumulator, subSteps, statsSubSteps, pc,
                activeIds, framesLeft, apiLeft, accAfterAdd, stepStart, touched, phaseLog,
                resolvedLog>>

\* the drop both handlers make once their tests have passed: a ball from
\* the pool, addBall, and on success decrementBallCount and three sparks
DropBall(op) ==
    \E mouseX \in MouseXs, vx \in DropVxs, lifeS \in SparkLives :
       LET r == Acquire(pool)
           ball == r.result
           added == AddBall(gameState, ball, MaxBallsOnScreen)
           st == IF added.result THEN DecrementBallCount(added.state) ELSE added.state
       IN /\ r.pool.stats.created <= MaxObjects
          /\ pool' = r.pool
          /\ objs' = (ball :> NewBall(mouseX, INITIAL_Y, vx, 0, 1, GRAVITY, FRICTION)) @@ objs
          /\ gameState' = st
          /\ gameLoop' = IF gameLoop.shared THEN [gameLoop EXCEPT !.balls = st.balls]
                         ELSE gameLoop
          /\ particles' = IF added.result THEN CreateParticles(particles, 3, lifeS)
                          ELSE particles
          /\ gameLast' = GameCall(op, added.result)

\* a handler that returns at once
NoDrop(op) ==
    /\ gameLast' = GameCall(op, FALSE)
    /\ UNCHANGED <<pool, objs, gameState, gameLoop, particles>>

\* GameInitializer.handleBallDrop()
DoHandleBallDrop ==
    /\ BetweenFrames
    /\ IF DropRefused(gameState) THEN NoDrop("handleBallDrop")
       ELSE DropBall("handleBallDrop")
    /\ HandlerFrame

\* InputHandler.performBallDrop(); canPerformAction and the debounce test
\* depend on the clock
DoPerformBallDrop ==
    /\ BetweenFrames
    /\ \E canPerformAction \in BOOLEAN, debounced \in BOOLEAN :
          IF ~canPerformAction \/ DropRefused(gameState) \/ debounced
          THEN NoDrop("performBallDrop")
          ELSE DropBall("performBallDrop")
    /\ HandlerFrame

\* GameState.pauseGame()
DoPauseGame ==
    /\ BetweenFrames
    /\ gameState' = PauseGame(gameState)
    /\ gameLast' = GameCall("pauseGame", TRUE)
    /\ UNCHANGED <<pool, objs, gameLoop, particles>>
    /\ HandlerFrame

\* GameLoop.pause()
DoPause ==
    /\ BetweenFrames
    /\ gameLoop' = [gameLoop EXCEPT !.isPaused = TRUE]
    /\ gameLast' = GameCall("pause", TRUE)
    /\ UNCHANGED <<pool, objs, gameState, particles>>
    /\ HandlerFrame

\* GameLoop.resume()
DoResume ==
    /\ BetweenFrames
    /\ gameLoop' = [gameLoop EXCEPT !.isPaused = FALSE]
    /\ gameLast' = GameCall("resume", gameLoop.isPaused)
    /\ UNCHANGED <<pool, objs, gameState, particles>>
    /\ HandlerFrame

\* the deltaTime loop() measures, in ticks: less than a sub-step, or more
\* than one
FrameTimes == {1, FixedTimeStep + 1}

\* render(), updateFrameStats() and scheduleNextFrame() at the end of loop()
FrameEnd(gl) ==
    [gl EXCEPT !.renderCount = @ + 1, !.frameCount = @ + 1, !.scheduleCount = @ + 1]

\* the objects updatePhysics hands to the engine
PhysicsObjects ==
    SelectSeq(gameLoop.balls, LAMBDA b : objs[b].isActive)
    \o (IF objs[PegId].isActive THEN <<PegId>> ELSE <<>>)

\* a frame that does not reach the physics engine
FrameWithoutUpdate(gl) ==
    /\ framesLeft > 0
    /\ framesLeft' = framesLeft - 1
    /\ gameLoop' = gl
    /\ UNCHANGED <<objs, globalForces, timeAccumulator, subSteps, statsSubSteps, pc,
                   activeIds, apiLeft, accAfterAdd, stepStart, touched, phaseLog,
                   resolvedLog>>

\* GameLoop.loop() up to the call of PhysicsEngine.update; shouldSkipFrame
\* depends on the frame times measured
LoopBegin ==
    /\ ~gameLoop.inUpdate
    /\ gameLoop.isRunning
    /\ gameLast' = GameCall("loop", FALSE)
    /\ IF PauseCheck(gameLoop.isPaused, gameState.isPaused)
       THEN \E shouldSkipFrame \in BOOLEAN :
               IF shouldSkipFrame /\ gameLoop.skipFrames + 1 < MAX_SKIP_FRAMES
               THEN FrameWithoutUpdate([gameLoop EXCEPT !.skipFrames = @ + 1,
                                                        !.scheduleCount = @ + 1])
               ELSE LET gl == [gameLoop EXCEPT !.skipFrames = 0, !.updateCounter = @ + 1]
                    IN IF gl.updateCounter % gl.updateFrequency # 0
                       THEN FrameWithoutUpdate(FrameEnd(gl))
                       ELSE /\ gameLoop' = [gl EXCEPT !.inUpdate = TRUE]
                            /\ \E deltaTime \in FrameTimes : UpdateWith(deltaTime)
       ELSE FrameWithoutUpdate(FrameEnd(gameLoop))
    /\ UNCHANGED <<poolVars, gameState, particles, gameOps>>

\* the while loop of PhysicsEngine.update on the objects of the game
GameUpdateLoop ==
    /\ gameLoop.inUpdate
    /\ UpdateLoopOn(PhysicsObjects)
    /\ UNCHANGED <<poolVars, gameVars>>

\* the phases of fixedUpdate within a frame of the game
GameFixedUpdate ==
    /\ gameLoop.inUpdate
    /\ \/ PhaseApplyForces
       \/ PhaseUpdatePositions
       \/ PhaseDetectBoundaryCollisions
       \/ PhaseDetectCollisions
       \/ PhaseResolveConstraints
       \/ PhaseResetForces
    /\ UNCHANGED <<poolVars, gameVars>>

\* GameLoop.update() after the physics, and the rest of loop()
LoopEnd ==
    /\ gameLoop.inUpdate
    /\ pc = "idle"
    /\ \E lifeE \in ExplosionLives, lifeS \in SparkLives, due \in PoolDues :
          LET g1 == UpdateBallsFrom([state |-> gameState, balls |-> gameLoop.balls,
                                     shared |-> gameLoop.shared, os |-> objs, pl |-> pool,
                                     ps |-> particles],
                                    Len(gameLoop.balls), lifeE, lifeS)
              os2 == [g1.os EXCEPT ![PegId] = PegUpdate(@, gameLoop.pegHalf)]
              clean == gameLoop.frameCount % CLEANUP_FRAMES = 0
              st3 == IF clean THEN CleanupInactiveBalls(g1.state, os2) ELSE g1.state
              st5 == IF st3.ballCount <= 0 /\ Len(g1.balls) = 0 /\ ~st3.isGameOver
                     THEN EndGame(st3) ELSE st3
              pl6 == UpdateObjectPools(g1.pl, due)
          IN /\ pl6.stats.created <= MaxObjects
             /\ gameState' = st5
             /\ objs' = os2
             /\ pool' = pl6
             /\ particles' = UpdateParticles(g1.ps)
             /\ gameLoop' = FrameEnd([gameLoop EXCEPT !.balls = g1.balls,
                                                      !.shared = @ /\ ~clean,
                                                      !.inUpdate = FALSE,
                                                      !.pegHalf = ~@])
    /\ gameLast' = [gameLast EXCEPT !.op = "loopEnd"]
    /\ UNCHANGED <<poolOps, last, gameOps, globalForces, timeAccumulator, subSteps,
                   statsSubSteps, pc, activeIds, framesLeft, apiLeft, accAfterAdd,
                   stepStart, touched, phaseLog, resolvedLog>>

NextGame ==
    \/ DoHandleBallDrop
    \/ DoPerformBallDrop
    \/ DoPauseGame
    \/ DoPause
    \/ DoResume
    \/ LoopBegin
    \/ GameUpdateLoop
    \/ GameFixedUpdate
    \/ LoopEnd

\* the pool before it is used
IdlePool == pool = NewPool(0, 1) /\ poolOps = 0 /\ last = NoCall

Init == InitPool /\ InitEngine /\ IdleGrid /\ IdlePair /\ IdleGame

Next == NextPool /\ UNCHANGED <<physVars, gridVars, pairVars, gameVars>>

\* the object pool on its own
SpecPool == Init /\ [][Next]_vars

\* PhysicsEngine.update on its own, frame after frame
EngineInit == IdlePool /\ InitEngine /\ IdleGrid /\ IdlePair /\ IdleGame

SpecEngine ==
    EngineInit /\ [][NextEngine /\ UNCHANGED <<poolVars, gridVars, pairVars, gameVars>>]_vars

\* the physics engine and the calls made on its entities
PhysicsInit == IdlePool /\ InitPhysics /\ IdleGrid /\ IdlePair /\ IdleGame

SpecPhysics ==
    PhysicsInit /\ [][NextPhysics /\ UNCHANGED <<poolVars, gridVars, pairVars, gameVars>>]_vars

\* the SpatialGrid on its own
GridInit == IdlePool /\ InitEngine /\ IdleGrid /\ IdlePair /\ IdleGame

SpecGrid ==
    GridInit /\ [][NextGrid /\ UNCHANGED <<poolVars, physVars, pairVars, gameVars>>]_vars

\* the pool with the maintenance calls of PoolManager
SpecManager ==
    Init /\ [][NextManager /\ UNCHANGED <<physVars, gridVars, pairVars, gameVars>>]_vars

\* validateIntegrity on pools in any condition
IntegrityInit == InitIntegrity /\ InitEngine /\ IdleGrid /\ IdlePair /\ IdleGame

SpecIntegrity ==
    IntegrityInit
    /\ [][NextIntegrity /\ UNCHANGED <<physVars, gridVars, pairVars, gameVars>>]_vars

\* two entities and the calls made on the pair
PairInit == IdlePool /\ InitEngine /\ IdleGrid /\ InitPair /\ IdleGame

SpecPair ==
    PairInit
    /\ [][NextPair /\ UNCHANGED <<poolVars, physVars, gridVars, gameVars, timed>>]_vars

\* a pool under optimizePoolSize
OptimizeInit == InitOptimize /\ InitEngine /\ IdleGrid /\ IdlePair /\ IdleGame

SpecOptimize ==
    OptimizeInit
    /\ [][NextOptimize /\ UNCHANGED <<physVars, gridVars, pairVars, gameVars>>]_vars

\* a pooled ball, the pegs it hits and the timed callbacks of the hits
TimerInit == IdlePool /\ InitEngine /\ IdleGrid /\ IdlePair /\ IdleGame

SpecTimer ==
    TimerInit
    /\ [][NextTimer /\ UNCHANGED <<poolVars, physVars, gridVars, gameVars, pair, pairOps,
                                    pairLast>>]_vars

\* the game: drops, pauses and frames of the loop
GameInit == InitGame /\ IdleGrid /\ IdlePair

SpecGame == GameInit /\ [][NextGame /\ UNCHANGED <<gridVars, pairVars, slotCall>>]_vars

\* calls of recordSlotHit and onSlotHit
SlotHitInit == IdlePool /\ InitEngine /\ IdleGrid /\ IdlePair /\ IdleGame

SpecSlotHit ==
    SlotHitInit
    /\ [][NextSlotHit /\ UNCHANGED <<poolVars, physVars, gridVars, pairVars, gameState,
                                      gameLoop, particles, gameOps, gameLast>>]_vars

Spec == SpecPool

\* ------------------------------------------------------------------------
\* Properties of ObjectPool (checked under SpecPool)
\* ------------------------------------------------------------------------

\* C1: whatever acquire, release, forceRelease, resize and clear calls were
\* made, no object is both in the available list and in the inUse set.
C1_AvailableInUseDisjoint == Range(pool.available) \cap pool.inUse = {}

\* a release succeeded while other objects are still leased
C1_Witness ==
    /\ last.op = "release" /\ last.result = TRUE
    /\ pool.inUse # {} /\ Len(pool.available) > 0

\* C2: release of an object that is not in inUse (null, foreign or already
\* released) returns false, counts one release error and changes neither
\* available nor inUse; available never holds the same object twice.
C2_ReleaseNotInUseRejected ==
    /\ (last.op = "release" /\ last.obj \notin last.pre.inUse) =>
          /\ last.result = FALSE
          /\ pool.stats.releaseErrors = last.pre.stats.releaseErrors + 1
          /\ pool.available = last.pre.available
          /\ pool.inUse = last.pre.inUse
    /\ NoDuplicates(pool.available)

\* a second release of an object that already sits in available
C2_Witness ==
    /\ last.op = "release" /\ last.obj # Null
    /\ last.obj \notin last.pre.inUse
    /\ last.obj \in Range(last.pre.available)

\* C3: acquire always returns an object and leases it: a freshly constructed
\* one, counted as a miss, when available was empty (also with maxSize or
\* more objects in use), otherwise one taken from available, counted as a hit.
C3_AcquireNeverFails ==
    last.op = "acquire" =>
       /\ last.result # Null
       /\ last.result \in pool.inUse
       /\ pool.inUse = last.pre.inUse \cup {last.result}
       /\ IF Len(last.pre.available) = 0
          THEN /\ last.result \notin last.pre.inUse
               /\ pool.stats.created = last.pre.stats.created + 1
               /\ pool.stats.poolMisses = last.pre.stats.poolMisses + 1
               /\ pool.stats.poolHits = last.pre.stats.poolHits
               /\ pool.available = last.pre.available
          ELSE /\ last.result \in Range(last.pre.available)
               /\ Len(pool.available) = Len(last.pre.available) - 1
               /\ pool.stats.created = last.pre.stats.created
               /\ pool.stats.poolHits = last.pre.stats.poolHits + 1
               /\ pool.stats.poolMisses = last.pre.stats.poolMisses

\* acquire on an exhausted pool: nothing available, maxSize objects leased
C3_Witness ==
    /\ last.op = "acquire"
    /\ Len(last.pre.available) = 0
    /\ Cardinality(last.pre.inUse) >= last.pre.maxSize
    /\ last.pre.maxSize > 0

\* C4: release of a leased object while available holds maxSize objects
\* returns false and drops the object (in neither collection, available as
\* before); a release never makes available longer than maxSize.
C4_ReleaseAtCapacityDisposes ==
    /\ (/\ last.op = "release"
        /\ last.obj \in last.pre.inUse
        /\ Len(last.pre.available) = last.pre.maxSize) =>
          /\ last.result = FALSE
          /\ last.obj \notin pool.inUse
          /\ last.obj \notin Range(pool.available)
          /\ pool.available = last.pre.available
    /\ (last.op = "release" /\ Len(last.pre.available) <= last.pre.maxSize) =>
          Len(pool.available) <= pool.maxSize

\* a leased object released into a full pool
C4_Witness ==
    /\ last.op = "release"
    /\ last.obj \in last.pre.inUse
    /\ Len(last.pre.available) = last.pre.maxSize
    /\ last.pre.maxSize > 0

\* ------------------------------------------------------------------------
\* Properties of PhysicsEngine.update (checked under SpecEngine)
\* ------------------------------------------------------------------------

\* C5: update adds dt to the accumulator and runs fixedUpdate
\* k = min(maxSubSteps, floor(accumulator / fixedTimeStep)) times, never more
\* than maxSubSteps; every sub-step takes exactly fixedTimeStep from the
\* accumulator, so with k < maxSubSteps a leftover smaller than fixedTimeStep
\* stays for the next frame.  The loop counter only grows and stops the
\* loop at maxSubSteps, which is why the call returns.
C5_SubStepsAndLeftover ==
    /\ subSteps <= MaxSubSteps
    /\ timeAccumulator = accAfterAdd - subSteps * FixedTimeStep
    /\ pc = "idle" =>
          /\ statsSubSteps = Min(MaxSubSteps, accAfterAdd \div FixedTimeStep)
          /\ timeAccumulator = accAfterAdd - statsSubSteps * FixedTimeStep
          /\ statsSubSteps < MaxSubSteps =>
                timeAccumulator >= 0 /\ timeAccumulator < FixedTimeStep

\* an update that ran some sub-steps, fewer than the cap, and left a
\* remainder in the accumulator
C5_Witness ==
    /\ pc = "idle"
    /\ statsSubSteps > 0 /\ statsSubSteps < MaxSubSteps
    /\ timeAccumulator > 0
    /\ accAfterAdd = statsSubSteps * FixedTimeStep + timeAccumulator

\* C6: an update that reaches the maxSubSteps cap drops the backlog, so that
\* under sustained lag the accumulator does not grow from frame to frame:
\* between two updates it never holds more than one frame can add.
C6_BacklogDropped == pc = "idle" => timeAccumulator <= MaxDt

\* C7: every fixedUpdate runs applyForces, updatePositions,
\* detectBoundaryCollisions, detectCollisions, resolveConstraints and
\* resetForces in this order, each for all entities before the next starts,
\* the same on every sub-step.
C7_PhaseOrder ==
    LET order == <<"applyForces", "updatePositions", "detectBoundaryCollisions",
                   "detectCollisions", "resolveConstraints", "resetForces">>
    IN /\ Len(phaseLog) <= Len(order)
       /\ \A k \in 1..Len(phaseLog) : phaseLog[k] = order[k]
       /\ pc \notin {"idle", "loop"} => pc = order[Len(phaseLog) + 1]
       /\ subSteps > 0 /\ pc \in {"idle", "loop"} => phaseLog = order

\* the second sub-step of a frame is past detectCollisions
C7_Witness ==
    /\ subSteps >= 1
    /\ pc = "resolveConstraints"
    /\ Len(phaseLog) = 4

\* ------------------------------------------------------------------------
\* Properties of the entities (checked under SpecPhysics)
\* ------------------------------------------------------------------------

\* C8: an entity whose isStatic flag is set and that starts at rest keeps
\* vx, vy, ax and ay at zero through applyForce, applyImpulse, fixedUpdate
\* and collision resolution.
C8_StaticStaysAtRest ==
    \A i \in DOMAIN objs :
       objs[i].isStatic =>
          objs[i].vx = 0 /\ objs[i].vy = 0 /\ objs[i].ax = 0 /\ objs[i].ay = 0

\* C9: collision resolution, by CollisionDetector.resolveCollision in a
\* sub-step or by PhysicsEntity.resolveCollision, leaves the position of a
\* static entity as it was, also when the two centres coincide.
C9_StaticNeverMoved ==
    \A i \in DOMAIN objs :
       stepStart[i].isStatic =>
          objs[i].x = stepStart[i].x /\ objs[i].y = stepStart[i].y

\* C10: an entity that is inactive when fixedUpdate starts has no field
\* changed by the step and is in no collision check, resolution or hook.
C10_InactiveUntouched ==
    pc # "idle" =>
       \A i \in DOMAIN objs :
          ~stepStart[i].isActive =>
             /\ objs[i] = stepStart[i]
             /\ i \notin touched
             /\ \A k \in 1..Len(resolvedLog) :
                   i # resolvedLog[k][1] /\ i # resolvedLog[k][2]

\* a sub-step with an inactive entity present resolved a collision
C10_Witness ==
    /\ pc = "loop" /\ subSteps > 0
    /\ \E i \in DOMAIN objs : ~stepStart[i].isActive /\ objs[i].ax # 0
    /\ resolvedLog # <<>>

\* C11: at the end of every fixedUpdate each entity that was active and not
\* static when the step started lies inside the world:
\* radius <= x <= width - radius and radius <= y <= height - radius.
C11_WithinBounds ==
    (pc = "loop" /\ subSteps > 0) =>
       \A i \in DOMAIN objs :
          (stepStart[i].isActive /\ ~stepStart[i].isStatic) =>
             /\ objs[i].radius <= objs[i].x
             /\ objs[i].x <= WorldWidth - objs[i].radius
             /\ objs[i].radius <= objs[i].y
             /\ objs[i].y <= WorldHeight - objs[i].radius

\* a ball the wall had already stopped was pushed by a collision in the
\* same step and ends the step on the bound
C11_Witness ==
    /\ pc = "loop" /\ subSteps > 0
    /\ \E k \in 1..Len(resolvedLog) :
          LET i == resolvedLog[k][1]
          IN /\ ~stepStart[i].isStatic
             /\ objs[i].x = objs[i].radius
             /\ stepStart[i].x < stepStart[i].radius

\* C12: within one detectCollisions call every unordered pair of entities
\* is resolved (resolveCollision and the collision hooks) at most once,
\* although each of the two finds the other among its neighbours.
C12_PairResolvedOnce ==
    /\ \A k \in 1..Len(resolvedLog) : resolvedLog[k][1] # resolvedLog[k][2]
    /\ \A k, l \in 1..Len(resolvedLog) :
          k # l => {resolvedLog[k][1], resolvedLog[k][2]}
                      # {resolvedLog[l][1], resolvedLog[l][2]}

\* the pass is over and a pair it resolved still overlaps: the second of
\* the two met the first again and had to skip it
C12_Witness ==
    /\ pc = "resolveConstraints"
    /\ \E k \in 1..Len(resolvedLog) :
          LET a == resolvedLog[k][1]
              b == resolvedLog[k][2]
          IN /\ a < b
             /\ CheckCollision(objs[b], objs[a])
             /\ a \in Range(GetNearbyObjects(
                            PopulateSpatialGrid(EmptyGrid, objs, activeIds, 1),
                            objs[b].x, objs[b].y, objs[b].radius))

\* ------------------------------------------------------------------------
\* Properties of SpatialGrid (checked under SpecGrid)
\* ------------------------------------------------------------------------

\* C13: addObject(e, x, y, r) puts e in the bucket of exactly the grid cells
\* (col, row) with floor((x-r)/cellSize) <= col <= floor((x+r)/cellSize) and
\* floor((y-r)/cellSize) <= row <= floor((y+r)/cellSize); getNearbyObjects
\* returns every entity of the buckets of the cells it is anchored in, each
\* exactly once.
C13_CellsAndQuery ==
    LET cellsOf(x, y, r) ==
            {c \in GridCells :
                /\ (x - r) \div COLLISION_GRID_SIZE <= c[1]
                /\ c[1] <= (x + r) \div COLLISION_GRID_SIZE
                /\ (y - r) \div COLLISION_GRID_SIZE <= c[2]
                /\ c[2] <= (y + r) \div COLLISION_GRID_SIZE}
        cellsOfLast == cellsOf(gridLast.x, gridLast.y, gridLast.radius)
    IN /\ gridLast.op = "addObject" =>
             \A c \in GridCells :
                spatialGrid[c] = IF c \in cellsOfLast
                                 THEN Append(gridLast.pre[c], gridLast.id)
                                 ELSE gridLast.pre[c]
       /\ gridLast.op = "getNearbyObjects" =>
             /\ NoDuplicates(gridLast.result)
             /\ Range(gridLast.result)
                   = UNION {Range(spatialGrid[c]) : c \in cellsOfLast}

\* the entity of radius 5 at (52, 52) sits in all four cells around the
\* corner at (50, 50)
C13_Witness ==
    /\ gridLast.op = "addObject"
    /\ gridLast.x = 5200 /\ gridLast.y = 5200 /\ gridLast.radius = 500
    /\ \A c \in {<<0, 0>>, <<1, 0>>, <<0, 1>>, <<1, 1>>} :
          gridLast.id \in Range(spatialGrid[c])

\* ------------------------------------------------------------------------
\* Properties of a pair of entities (checked under SpecPair)
\* ------------------------------------------------------------------------

\* C14: for two active, collidable, overlapping entities a and b of any
\* groups and masks, a.isCollidingWith(b) = b.isCollidingWith(a), both being
\* true exactly when b's group is in a's mask or a's group is in b's mask.
C14_IsCollidingWithSymmetric ==
    (/\ pairLast.op = "isCollidingWith"
     /\ Distance(pairLast.pre[1], pairLast.pre[2])
           < pairLast.pre[1].radius + pairLast.pre[2].radius) =>
       /\ pairLast.result[1] = pairLast.result[2]
       /\ pairLast.result[1] =
             (\/ pairLast.pre[2].collisionGroup \in pairLast.pre[1].collisionMask
              \/ pairLast.pre[1].collisionGroup \in pairLast.pre[2].collisionMask)

\* ------------------------------------------------------------------------
\* Properties of pool maintenance (SpecIntegrity, SpecManager)
\* ------------------------------------------------------------------------

\* C15: validateIntegrity returns true exactly when available has no
\* duplicates and shares nothing with inUse, and then changes nothing;
\* otherwise it returns false and leaves available duplicate-free and
\* disjoint from inUse, with inUse as it was.
C15_ValidateIntegrity ==
    last.op = "validateIntegrity" =>
       LET sound == /\ NoDuplicates(last.pre.available)
                    /\ Range(last.pre.available) \cap last.pre.inUse = {}
       IN /\ last.result = sound
          /\ sound => pool = last.pre
          /\ ~sound =>
                /\ NoDuplicates(pool.available)
                /\ Range(pool.available) \cap pool.inUse = {}
                /\ pool.inUse = last.pre.inUse
                /\ Range(pool.available) = Range(last.pre.available) \ last.pre.inUse

\* a pool with a repeated entry and an entry that is also in use was
\* validated and something stayed available
C15_Witness ==
    /\ last.op = "validateIntegrity"
    /\ ~NoDuplicates(last.pre.available)
    /\ Range(last.pre.available) \cap last.pre.inUse # {}
    /\ pool.available # <<>>

\* C16: emergencyCleanup shrinks the pool: afterwards available holds no
\* more objects than before, inUse is unchanged and the number of removed
\* objects it returns is not negative.
C16_EmergencyCleanupShrinks ==
    last.op = "emergencyCleanup" =>
       /\ Len(pool.available) <= Len(last.pre.available)
       /\ pool.inUse = last.pre.inUse
       /\ last.result >= 0

\* ------------------------------------------------------------------------
\* Properties of the game loop and the drop handlers (checked under SpecGame)
\* ------------------------------------------------------------------------
\* C17: a frame of GameLoop.loop that starts while GameLoop.isPaused or
\* GameState.isPaused holds makes no game update: GameState, the balls of
\* the loop, the entities, the particles, the pool and the accumulator and
\* sub-step count of the engine are what they were, the update counter has
\* not moved, and the frame has rendered once and scheduled the next frame;
\* a later frame that is not paused therefore starts its update from that
\* state.
C17_PausedFrameSkipsUpdate ==
    (gameLast.op = "loop" /\ (gameLast.loop.isPaused \/ gameLast.state.isPaused))
    => /\ gameState = gameLast.state
       /\ objs = gameLast.objs
       /\ particles = gameLast.particles
       /\ pool = gameLast.pool
       /\ timeAccumulator = gameLast.timeAccumulator
       /\ statsSubSteps = gameLast.statsSubSteps
       /\ pc = "idle"
       /\ gameLoop = [gameLast.loop EXCEPT !.renderCount = @ + 1, !.frameCount = @ + 1,
                                           !.scheduleCount = @ + 1]

\* a paused frame has passed over a game with a ball in play, after a
\* frame that had updated the game
C17_Witness ==
    /\ gameLast.op = "loop"
    /\ gameLast.state.isPaused
    /\ Len(gameState.balls) > 0
    /\ gameLoop.updateCounter > 0
    /\ gameLoop.renderCount > gameLoop.updateCounter

\* C18: a drop that passes the tests of its handler while balls.length is at
\* the cap gets false from addBall, leaves balls and ballCount as they were;
\* a drop requested while ballCount <= 0, paused or game over changes
\* nothing; balls.length never exceeds the cap and ballCount never goes
\* below 0.
C18_SpawnRefusedAtCap ==
    /\ Len(gameState.balls) <= MaxBallsOnScreen
    /\ gameState.ballCount >= 0
    /\ (gameLast.op \in {"handleBallDrop", "performBallDrop"}
        /\ Len(gameLast.state.balls) >= MaxBallsOnScreen)
       => /\ gameLast.result = FALSE
          /\ gameState.balls = gameLast.state.balls
          /\ gameState.ballCount = gameLast.state.ballCount
    /\ (gameLast.op \in {"handleBallDrop", "performBallDrop"}
        /\ DropRefused(gameLast.state))
       => /\ gameState = gameLast.state
          /\ gameLoop = gameLast.loop
          /\ pool = gameLast.pool
          /\ objs = gameLast.objs
          /\ particles = gameLast.particles

\* a drop that passed the tests was refused by addBall at the cap
C18_Witness ==
    /\ gameLast.op = "handleBallDrop"
    /\ ~DropRefused(gameLast.state)
    /\ Len(gameLast.state.balls) = MaxBallsOnScreen
    /\ gameLast.result = FALSE
    /\ pool # gameLast.pool

\* C24: gameObjects.balls of the GameLoop and GameState.balls are the same
\* collection in every state after GameLoop.initialize, whatever frames,
\* drops and periodic cleanups have run: the same array, holding the same
\* balls, so that every ball addBall accepted is among the balls the frames
\* update and remove.
C24_SameBallCollection ==
    /\ gameLoop.shared
    /\ gameLoop.balls = gameState.balls

\* C25: the ball pool leaks no lease: every ball in inUse is in the ball
\* list of the game, a drop that addBall refuses at the cap leaves inUse as
\* it was, and a ball that has left the list is no longer in inUse.
C25_NoLeaseLeak ==
    /\ \A b \in pool.inUse : b \in Range(gameState.balls)
    /\ (gameLast.op \in {"handleBallDrop", "performBallDrop"}
        /\ Len(gameLast.state.balls) >= MaxBallsOnScreen)
       => pool.inUse = gameLast.pool.inUse

\* C26: the game is declared over only when ballCount <= 0 and
\* GameState.balls is empty, and endGame runs at most once in a game.
C26_GameOverOnce ==
    [][gameState'.gamesEnded # gameState.gamesEnded
         => /\ gameState.gamesEnded = 0
            /\ gameState'.gamesEnded = 1
            /\ gameState'.ballCount <= 0
            /\ Len(gameState'.balls) = 0]_vars

\* C27: during one GameLoop.update the update() of every live particle is
\* invoked exactly once: the particles that were live when the frame began
\* are, after the update, one tick older (those that reached life 0 gone),
\* so a particle created with life L is removed after exactly L updates.
C27_ParticleUpdatedOncePerUpdate ==
    gameLast.op = "loopEnd"
    => LET expected == AgeParticles(gameLast.particles)
       IN /\ Len(particles) >= Len(expected)
          /\ SubSeq(particles, 1, Len(expected)) = expected

\* ------------------------------------------------------------------------
\* Properties of CollisionDetector on one pair (checked under SpecPair)
\* ------------------------------------------------------------------------
\* C19: after resolveCollision on two overlapping bodies with distinct
\* centres the bodies no longer overlap: two dynamic bodies of any masses
\* end at a centre distance of at least radiusA + radiusB, and a dynamic
\* body with a static one ends at exactly radiusA + radiusB (each up to
\* rounding, 3 units of 1/SCALE).
C19_SeparatedAfterResolve ==
    (/\ pairLast.op = "resolveCollision"
     /\ Distance(pairLast.pre[1], pairLast.pre[2]) > 0
     /\ Distance(pairLast.pre[1], pairLast.pre[2])
           < pairLast.pre[1].radius + pairLast.pre[2].radius
     /\ ~(pairLast.pre[1].isStatic /\ pairLast.pre[2].isStatic))
    => LET radiusSum == pair[1].radius + pair[2].radius
       IN IF ~pair[1].isStatic /\ ~pair[2].isStatic
          THEN Distance(pair[1], pair[2]) >= radiusSum - 3
          ELSE Abs(Distance(pair[1], pair[2]) - radiusSum) <= 3

\* C20: a ball with vx = 0 and vy = v > 0 that overlaps a peg directly
\* below it has, after the detector resolved and handled the collision with
\* the random perturbation at zero, a vy of the opposite sign and of
\* magnitude bounce * v (up to rounding, 3 units of 1/SCALE), whatever its
\* bounce in (0, 1].
C20_BounceOffPeg ==
    \A b \in {1, 2} :
       (/\ pairLast.op = "collide"
        /\ pairLast.result[1]
        /\ pairLast.u = 50
        /\ pairLast.pre[b].type = "ball" /\ pairLast.pre[3 - b].type = "peg"
        /\ pairLast.pre[b].vx = 0 /\ pairLast.pre[b].vy > 0
        /\ pairLast.pre[b].x = pairLast.pre[3 - b].x
        /\ pairLast.pre[b].y < pairLast.pre[3 - b].y)
       => /\ pair[b].vy < 0
          /\ Abs(-pair[b].vy - Mul(pairLast.pre[b].bounce, pairLast.pre[b].vy))
                <= 3

\* twice the kinetic energy of the active bodies of a pair
KineticEnergy(p) ==
    LET Of(e) == IF e.isActive THEN e.mass * (e.vx * e.vx + e.vy * e.vy) ELSE 0
    IN Of(p[1]) + Of(p[2])

PegBonus(p) ==
    \E i \in {1, 2} : p[i].type = "peg" /\ Min(100, p[i].energyLevel + 20) > 50

SameMotion(p, q) ==
    \A i \in {1, 2} : /\ p[i].x = q[i].x /\ p[i].y = q[i].y
                      /\ p[i].vx = q[i].vx /\ p[i].vy = q[i].vy

\* C22: boundary clamping is idempotent: after resolveConstraints a second
\* resolveConstraints changes neither position nor velocity of any body, and
\* after detectBoundaryCollisions a second detectBoundaryCollisions changes
\* neither.
C22_BoundaryClampIdempotent ==
    /\ pairLast.op = "resolveConstraints"
          => SameMotion(<<ResolveConstraintsOf(pair[1], WorldWidth, WorldHeight),
                          ResolveConstraintsOf(pair[2], WorldWidth, WorldHeight)>>, pair)
    /\ pairLast.op = "detectBoundaryCollisions"
          => SameMotion(<<BoundaryCollisionOf(pair[1], WorldWidth, WorldHeight),
                          BoundaryCollisionOf(pair[2], WorldWidth, WorldHeight)>>, pair)

\* detectBoundaryCollisions has moved a ball back inside the world and
\* turned its velocity
C22_Witness ==
    /\ pairLast.op = "detectBoundaryCollisions"
    /\ pair[1].x # pairLast.pre[1].x
    /\ pair[1].vx # pairLast.pre[1].vx
    /\ pair[1].y # pairLast.pre[1].y

\* the normal relative velocity (vA - vB) . n of a pair, n the unit vector
\* from the first body to the second: positive when the bodies approach
ClosingSpeed(p) ==
    LET d == Distance(p[1], p[2])
    IN Trunc((p[1].vx - p[2].vx) * Div(p[2].x - p[1].x, d)
             + (p[1].vy - p[2].vy) * Div(p[2].y - p[1].y, d), SCALE)

\* C23: the velocity response of resolveVelocities and of
\* resolveElasticCollision applies only to approaching bodies: two bodies
\* that move apart along the collision normal keep their velocities, and two
\* bodies that approach receive the impulse and move apart afterwards.
C23_ResponseOnlyWhenApproaching ==
    (/\ pairLast.op \in {"resolveVelocities", "resolveElasticCollision"}
     /\ ~pairLast.pre[1].isStatic /\ ~pairLast.pre[2].isStatic)
    => /\ ClosingSpeed(pairLast.pre) < 0
          => /\ pair[1].vx = pairLast.pre[1].vx /\ pair[1].vy = pairLast.pre[1].vy
             /\ pair[2].vx = pairLast.pre[2].vx /\ pair[2].vy = pairLast.pre[2].vy
       /\ ClosingSpeed(pairLast.pre) > 0 => ClosingSpeed(pair) < 0

\* ------------------------------------------------------------------------
\* Properties of the timed callbacks (checked under SpecTimer)
\* ------------------------------------------------------------------------
\* C28: a timed callback set for a ball never changes the ball after it was
\* released and acquired again, and a ball that hit a peg at time t keeps
\* isCharged until t + 500 ms as long as it is not released.
C28_CallbacksKeepToTheirLease ==
    /\ ~timed.staleChange
    /\ (/\ timed.inUse
        /\ timed.chargedLease = timed.lease
        /\ timed.now < timed.chargedAt + CHARGE_TICKS)
       => timed.isCharged

\* ------------------------------------------------------------------------
\* Properties of optimizePoolSize (checked under SpecOptimize)
\* ------------------------------------------------------------------------
\* C29: optimizePoolSize never changes the maxSize of a pool, so that the
\* release of a leased object still returns true whenever available.length
\* is below the maxSize the pool was constructed with.
C29_OptimizeKeepsMaxSize ==
    /\ pool.maxSize = MaxOptimizedSize
    /\ (/\ last.op = "release"
        /\ last.obj \in last.pre.inUse
        /\ Len(last.pre.available) < MaxOptimizedSize)
       => last.result = TRUE

\* ------------------------------------------------------------------------
\* Properties of recordSlotHit (checked under SpecSlotHit)
\* ------------------------------------------------------------------------
\* C30: a call of recordSlotHit terminates (it does not exhaust the call
\* stack), having incremented slotHitCounts[slotIndex] by exactly one when
\* slotIndex is a valid index and left every count as it was when it is not.
C30_RecordSlotHitCountsOnce ==
    /\ slotCall.pc # "RangeError"
    /\ \A i \in 0..(SLOT_COUNT - 1) :
          slotCall.slotHitCounts[i] - slotCall.pre[i]
             <= (IF i = slotCall.slotIndex THEN 1 ELSE 0)

====
